---- MODULE Spec2Model ----
(***************************************************************************)
(* A model of openapi-generate's schema transformation pipeline:           *)
(*   - sanitizeToolName, convertSchemaToJSONSchema, operationToTool and    *)
(*     generateToolSchemas                       (src/src/server.ts)       *)
(*   - openapiParse, parseSpec and the parse* helpers                      *)
(*                                               (src/src/tools/parse.ts)  *)
(*   - isOpenAPIV3, successResponse, errorResponse (src/unnamed/part_004)  *)
(*                                                                         *)
(* A JavaScript object is a TLA+ function from its present keys to their   *)
(* values: a key that is absent from the object is absent from DOMAIN.     *)
(* A string the code inspects character by character is a sequence of      *)
(* one-character strings.                                                  *)
(*                                                                         *)
(* The entry points are pure functions.  Each is an operator; the state    *)
(* machine calls one entry point on one input (pc = "ready" -> "done") and *)
(* keeps the input and the returned value, then returns to "ready".        *)
(***************************************************************************)
EXTENDS Integers, Sequences, FiniteSets, TLC

VARIABLES
    pc,     \* "ready": no call in progress; "done": a call has returned
    fn,     \* the entry point that was called ("none" when ready)
    arg,    \* the input it was called on
    ret,    \* the value it returned
    steps,  \* the callees the entry point ran, in order
    invocations, \* a session: the invocations made so far, with results
    conns,  \* the HTTP requests the server has accepted, each with its state
    buffers, \* the chunk arrays of readBody
    heap    \* the caller's document object as the last call left it

vars == <<pc, fn, arg, ret, steps, invocations, conns, buffers, heap>>

(***************************************************************************)
(* Sequences and characters                                                *)
(***************************************************************************)
Min(a, b) == IF a < b THEN a ELSE b

Range(s) == {s[i] : i \in 1..Len(s)}

\* the values of a function (an object's values)
Range2(f) == {f[k] : k \in DOMAIN f}

\* k copies of c
Repeat(c, k) == [i \in 1..k |-> c]

\* every sequence over S of length at most n
SeqsUpTo(S, n) == UNION {[1..k -> S] : k \in 0..n}

RECURSIVE Flatten(_)
Flatten(ss) == IF ss = <<>> THEN <<>> ELSE Head(ss) \o Flatten(Tail(ss))

UpperCase == <<"A","B","C","D","E","F","G","H","I","J","K","L","M",
               "N","O","P","Q","R","S","T","U","V","W","X","Y","Z">>
LowerCase == <<"a","b","c","d","e","f","g","h","i","j","k","l","m",
               "n","o","p","q","r","s","t","u","v","w","x","y","z">>
Digits == {"0","1","2","3","4","5","6","7","8","9"}
AlphaNum == Range(UpperCase) \cup Range(LowerCase) \cup Digits

\* String.prototype.toLowerCase on one ASCII character
LowerChar(c) ==
    IF c \in Range(UpperCase)
    THEN LowerCase[CHOOSE i \in 1..Len(UpperCase) : UpperCase[i] = c]
    ELSE c

toLowerCase(s) == [i \in 1..Len(s) |-> LowerChar(s[i])]

\* s.replace(/_+/g, '_'): every run of underscores becomes one underscore
CollapseUnderscores(s) ==
    LET F[i \in 0..Len(s)] ==
            IF i = 0 THEN <<>>
            ELSE IF s[i] = "_" /\ i > 1 /\ s[i-1] = "_" THEN F[i-1]
            ELSE Append(F[i-1], s[i])
    IN F[Len(s)]

\* s.replace(/^_|_$/g, ''): one leading and one trailing underscore go
StripEdgeUnderscores(s) ==
    LET a == IF Len(s) > 0 /\ s[1] = "_" THEN Tail(s) ELSE s
    IN IF Len(a) > 0 /\ a[Len(a)] = "_" THEN SubSeq(a, 1, Len(a) - 1) ELSE a

\* s.slice(0, n)
Slice0(s, n) == SubSeq(s, 1, Min(n, Len(s)))

(***************************************************************************)
(* sanitizeToolName                                                        *)
(***************************************************************************)
\* the length slice(0, 64) cuts a tool name to
MaxToolNameLen == 64

\* the class [a-zA-Z0-9_-]
ToolNameClass == AlphaNum \cup {"_", "-"}

sanitizeToolName(name) ==
    LET r1 == [i \in 1..Len(name) |->
                  IF name[i] \in ToolNameClass THEN name[i] ELSE "_"]
        r2 == CollapseUnderscores(r1)
        r3 == StripEdgeUnderscores(r2)
        r4 == toLowerCase(r3)
    IN Slice0(r4, MaxToolNameLen)

(***************************************************************************)
(* Response envelopes (types.js)                                           *)
(***************************************************************************)
\* new Date().toISOString(): the time of the call, which no claim reads
RetrievedAt == "retrieved_at"

successResponse(data, meta) ==
    [ok |-> TRUE,
     data |-> data,
     meta |-> meta @@ [retrieved_at |-> RetrievedAt, warnings |-> <<>>]]

errorResponse(code, message, details) ==
    [ok |-> FALSE,
     error |-> [code |-> code, message |-> message, details |-> details],
     meta |-> [retrieved_at |-> RetrievedAt]]

\* a call that threw instead of returning (a function with no try/catch)
Threw(name) == [threw |-> name]
Returned(v) == [returned |-> v]

\* engine's message of the RangeError an unbounded recursion ends in
StackOverflowMessage == "Maximum call stack size exceeded"

(***************************************************************************)
(* convertSchemaToJSONSchema                                               *)
(*                                                                         *)
(* A ParsedSchema is a function from its present keys.  "$ref" holds the   *)
(* reference string as a sequence of tokens (the concatenation of the      *)
(* tokens is the string); "properties" is a function from property names;  *)
(* "items" and a schema-valued "additionalProperties" are schemas;         *)
(* "oneOf", "anyOf", "allOf" are sequences of schemas; "required" and      *)
(* "enum" are sequences of strings.  A boolean additionalProperties is     *)
(* held under the key "additionalPropertiesBool", so that each key has one *)
(* type of value.                                                          *)
(***************************************************************************)
RefPrefix == "#/components/schemas/"

\* s.replace(t, ''), s a sequence of tokens: the first occurrence of t goes
ReplaceFirst(s, t) ==
    IF t \in Range(s)
    THEN LET i == CHOOSE j \in 1..Len(s) :
                     s[j] = t /\ \A k \in 1..(j-1) : s[k] # t
         IN SubSeq(s, 1, i - 1) \o SubSeq(s, i + 1, Len(s))
    ELSE s

\* the string a sequence of tokens (or of characters) stands for
RECURSIVE Join(_)
Join(s) == IF s = <<>> THEN "" ELSE Head(s) \o Join(Tail(s))

\* if (schema.$ref): the key is present and the string is not empty
HasRef(schema) == "$ref" \in DOMAIN schema /\ schema["$ref"] # <<>>

\* schema.$ref.replace('#/components/schemas/', '')
RefName(schema) == Join(ReplaceFirst(schema["$ref"], RefPrefix))

\* keys copied when their value is truthy (a non-empty string)
CopiedIfTruthy == {"type", "description", "format", "pattern"}
\* keys copied when present: arrays (always truthy) and "!== undefined" tests
CopiedIfPresent == {"enum", "required", "default", "minimum", "maximum",
                    "minLength", "maxLength"}

CopiedScalars(schema) ==
    {k \in DOMAIN schema :
        \/ k \in CopiedIfTruthy /\ schema[k] # ""
        \/ k \in CopiedIfPresent}

\* a plausible slip: the spread the other way round, an earlier member's
\* property winning over a later member's
RECURSIVE MergeAllOfEarlierWins(_, _)
MergeAllOfEarlierWins(merged, members) ==
    IF members = <<>> THEN merged
    ELSE LET converted == Head(members)
             p == IF "properties" \in DOMAIN converted
                  THEN merged.properties @@ converted.properties
                  ELSE merged.properties
             r == IF "required" \in DOMAIN converted
                  THEN merged.required \o converted.required
                  ELSE merged.required
         IN MergeAllOfEarlierWins(
                [type |-> "object", properties |-> p, required |-> r],
                Tail(members))

\* the allOf loop over already converted members
RECURSIVE MergeAllOf(_, _)
MergeAllOf(merged, members) ==
    IF members = <<>> THEN merged
    ELSE LET converted == Head(members)
             p == IF "properties" \in DOMAIN converted
                  THEN converted.properties @@ merged.properties
                  ELSE merged.properties
             r == IF "required" \in DOMAIN converted
                  THEN merged.required \o converted.required
                  ELSE merged.required
         IN MergeAllOf([type |-> "object", properties |-> p, required |-> r],
                       Tail(members))

\* a plausible slip: the merge is laid over the node built from the keys
\* beside allOf
AllOfResultOverSiblings(jsonSchema, members) ==
    MergeAllOf([type |-> "object", properties |-> <<>>, required |-> <<>>],
               members) @@ jsonSchema

\* the allOf branch: jsonSchema is the node built so far from the keys
\* beside allOf, members the converted members; the merge is returned
AllOfResult(jsonSchema, members) ==
    MergeAllOf([type |-> "object", properties |-> <<>>, required |-> <<>>],
               members)

RECURSIVE convertSchemaToJSONSchema(_, _)

\* a plausible slip: the resolved schema is returned as it is, not converted
convertRefUnconverted(schema, allSchemas) ==
    IF RefName(schema) \in DOMAIN allSchemas
    THEN allSchemas[RefName(schema)]
    ELSE [type |-> "object"]

\* the "Handle $ref" branch
convertRef(schema, allSchemas) ==
    IF RefName(schema) \in DOMAIN allSchemas
    THEN convertSchemaToJSONSchema(allSchemas[RefName(schema)], allSchemas)
    ELSE [type |-> "object"]

convertSchemaToJSONSchema(schema, allSchemas) ==
    IF HasRef(schema)
    THEN convertRef(schema, allSchemas)
    ELSE
      LET conv(s) == convertSchemaToJSONSchema(s, allSchemas)
          convAll(ss) == [i \in 1..Len(ss) |-> conv(ss[i])]
          scalars == [k \in CopiedScalars(schema) |-> schema[k]]
          props == IF "properties" \in DOMAIN schema
                   THEN "properties" :>
                          [key \in DOMAIN schema.properties |->
                              conv(schema.properties[key])]
                   ELSE <<>>
          items == IF "items" \in DOMAIN schema
                   THEN "items" :> conv(schema.items) ELSE <<>>
          oneOf == IF "oneOf" \in DOMAIN schema
                   THEN "oneOf" :> convAll(schema.oneOf) ELSE <<>>
          anyOf == IF "anyOf" \in DOMAIN schema
                   THEN "anyOf" :> convAll(schema.anyOf) ELSE <<>>
          addl == IF "additionalPropertiesBool" \in DOMAIN schema
                  THEN "additionalPropertiesBool" :>
                          schema.additionalPropertiesBool
                  ELSE IF "additionalProperties" \in DOMAIN schema
                  THEN "additionalProperties" :>
                          conv(schema.additionalProperties)
                  ELSE <<>>
      IN IF "allOf" \in DOMAIN schema
         THEN AllOfResult(scalars @@ props @@ items @@ oneOf @@ anyOf,
                          convAll(schema.allOf))
         ELSE scalars @@ props @@ items @@ oneOf @@ anyOf @@ addl

\* The recursion has no visited set and no depth bound: it ends exactly when
\* no component name comes up again below its own resolution.  stack holds
\* the names being resolved.  The schemas in question are the ones the code
\* recurses into: properties, items, oneOf, anyOf, allOf members, and a
\* schema-valued additionalProperties when there is no allOf.
\* a plausible slip: additionalProperties counted among the schemas the
\* code recurses into although allOf returns before it
RECURSIVE convertOverflowsEveryKey(_, _, _)
convertOverflowsEveryKey(schema, allSchemas, stack) ==
    IF HasRef(schema)
    THEN /\ RefName(schema) \in DOMAIN allSchemas
         /\ \/ RefName(schema) \in stack
            \/ convertOverflowsEveryKey(allSchemas[RefName(schema)], allSchemas,
                                        stack \cup {RefName(schema)})
    ELSE
      LET over(s) == convertOverflowsEveryKey(s, allSchemas, stack)
          anyOver(k) == k \in DOMAIN schema /\
                        \E i \in 1..Len(schema[k]) : over(schema[k][i])
      IN \/ "properties" \in DOMAIN schema /\
            \E key \in DOMAIN schema.properties : over(schema.properties[key])
         \/ "items" \in DOMAIN schema /\ over(schema.items)
         \/ anyOver("oneOf")
         \/ anyOver("anyOf")
         \/ anyOver("allOf")
         \/ /\ "additionalPropertiesBool" \notin DOMAIN schema
            /\ "additionalProperties" \in DOMAIN schema
            /\ over(schema.additionalProperties)

RECURSIVE convertOverflows(_, _, _)
convertOverflows(schema, allSchemas, stack) ==
    IF HasRef(schema)
    THEN /\ RefName(schema) \in DOMAIN allSchemas
         /\ \/ RefName(schema) \in stack
            \/ convertOverflows(allSchemas[RefName(schema)], allSchemas,
                                stack \cup {RefName(schema)})
    ELSE
      LET over(s) == convertOverflows(s, allSchemas, stack)
          anyOver(k) == k \in DOMAIN schema /\
                        \E i \in 1..Len(schema[k]) : over(schema[k][i])
      IN \/ "properties" \in DOMAIN schema /\
            \E key \in DOMAIN schema.properties : over(schema.properties[key])
         \/ "items" \in DOMAIN schema /\ over(schema.items)
         \/ anyOver("oneOf")
         \/ anyOver("anyOf")
         \/ anyOver("allOf")
         \/ /\ "allOf" \notin DOMAIN schema
            /\ "additionalPropertiesBool" \notin DOMAIN schema
            /\ "additionalProperties" \in DOMAIN schema
            /\ over(schema.additionalProperties)

\* a direct call of the exported function
callConvertSchemaToJSONSchema(schema, allSchemas) ==
    IF convertOverflows(schema, allSchemas, {})
    THEN Threw("RangeError")
    ELSE Returned(convertSchemaToJSONSchema(schema, allSchemas))

(***************************************************************************)
(* operationToTool and buildToolDescription                                *)
(*                                                                         *)
(* A ParsedOperation's operation_id is a sequence of characters; its        *)
(* summary and description are texts, sequences of tokens in which " " is  *)
(* the whitespace; a parameter's and a request body's description is a     *)
(* string, as a schema's is.  A request body's content is the sequence of  *)
(* its entries in insertion order.                                         *)
(***************************************************************************)
\* Object.entries walks an object's keys in insertion order.  The inputs
\* insert their keys in this order; a key that is not listed comes after.
PropOrder == <<"id", "name", "tag", "owner", "child", "extra", "ghost",
               "body", "body_id", "body_name">>

RECURSIVE KeysInOrder(_)
KeysInOrder(keys) ==
    IF keys = {} THEN <<>>
    ELSE LET listed == {i \in 1..Len(PropOrder) : PropOrder[i] \in keys}
             k == IF listed # {}
                  THEN PropOrder[CHOOSE i \in listed : \A j \in listed : i <= j]
                  ELSE CHOOSE x \in keys : TRUE
         IN <<k>> \o KeysInOrder(keys \ {k})

\* text.trim(): the whitespace tokens at both ends go
RECURSIVE TrimStart(_)
TrimStart(text) ==
    IF text # <<>> /\ Head(text) = " " THEN TrimStart(Tail(text)) ELSE text

RECURSIVE TrimEnd(_)
TrimEnd(text) ==
    IF text # <<>> /\ text[Len(text)] = " "
    THEN TrimEnd(SubSeq(text, 1, Len(text) - 1)) ELSE text

Trim(text) == TrimEnd(TrimStart(text))

\* parts.join(' ')
RECURSIVE JoinWithSpace(_)
JoinWithSpace(parts) ==
    IF parts = <<>> THEN <<>>
    ELSE IF Len(parts) = 1 THEN parts[1]
    ELSE parts[1] \o <<" ">> \o JoinWithSpace(Tail(parts))

\* a text-valued field that is present and not the empty string
TruthyText(o, k) == k \in DOMAIN o /\ o[k] # <<>>

buildToolDescription(operation) ==
    LET p1 == IF TruthyText(operation, "summary")
              THEN <<operation.summary>> ELSE <<>>
        differs == IF "summary" \in DOMAIN operation
                   THEN operation.description # operation.summary
                   ELSE TRUE
        p2 == IF TruthyText(operation, "description") /\ differs
              THEN <<operation.description>> ELSE <<>>
        p3 == IF "deprecated" \in DOMAIN operation /\ operation.deprecated
              THEN << <<"[DEPRECATED]">> >> ELSE <<>>
        p4 == << <<"[">> \o operation.method \o <<"]">> >>
        joined == Trim(JoinWithSpace(p1 \o p2 \o p3 \o p4))
    IN IF joined # <<>> THEN joined
       ELSE <<"Execute", " ">> \o operation.operation_id

\* a string-valued field that is present and not the empty string
TruthyString(o, k) == k \in DOMAIN o /\ o[k] # ""

\* the loop over operation.parameters
RECURSIVE AddParameters(_, _, _)
AddParameters(acc, parameters, schemas) ==
    IF parameters = <<>> THEN acc
    ELSE LET param == Head(parameters)
             node == convertSchemaToJSONSchema(param.schema, schemas)
             described == IF TruthyString(param, "description")
                          THEN ("description" :> param.description) @@ node
                          ELSE node
         IN AddParameters(
                [properties |-> (param.name :> described) @@ acc.properties,
                 required |-> IF param.required
                              THEN Append(acc.required, param.name)
                              ELSE acc.required],
                Tail(parameters), schemas)

\* content[mediaType]
ContentEntry(content, mediaType) ==
    {content[i].media : i \in {j \in 1..Len(content) :
                                   content[j].mediaType = mediaType}}

\* content['application/json'] || content['application/x-www-form-urlencoded']
\*   || Object.values(content)[0]: the set is empty when that is undefined
SelectContentType(content) ==
    IF ContentEntry(content, "application/json") # {}
    THEN ContentEntry(content, "application/json")
    ELSE IF ContentEntry(content, "application/x-www-form-urlencoded") # {}
    THEN ContentEntry(content, "application/x-www-form-urlencoded")
    ELSE IF content # <<>> THEN {content[1].media}
    ELSE {}

\* the schema operationToTool converts for the body: none when there is no
\* request body, no content type or no schema under it
SelectedBodySchema(operation) ==
    IF "request_body" \in DOMAIN operation
    THEN {ct.schema : ct \in {c \in SelectContentType(
                                        operation.request_body.content) :
                                 "schema" \in DOMAIN c}}
    ELSE {}

\* the loop over Object.entries(bodySchema.properties)
RECURSIVE FlattenBodyProperties(_, _, _)
FlattenBodyProperties(properties, keys, bodyProperties) ==
    IF keys = <<>> THEN properties
    ELSE LET key == Head(keys)
             propName == IF key \in DOMAIN properties
                         THEN "body_" \o key ELSE key
         IN FlattenBodyProperties(
                (propName :> bodyProperties[key]) @@ properties,
                Tail(keys), bodyProperties)

\* a plausible slip: the required name is chosen by the test that names the
\* property (line 106) instead of its opposite (line 113)
RECURSIVE AddBodyRequiredAsNamed(_, _, _)
AddBodyRequiredAsNamed(required, fields, properties) ==
    IF fields = <<>> THEN required
    ELSE LET reqField == Head(fields)
             propName == IF reqField \in DOMAIN properties
                         THEN "body_" \o reqField ELSE reqField
         IN AddBodyRequiredAsNamed(
                IF propName \in Range(required) THEN required
                ELSE Append(required, propName),
                Tail(fields), properties)

\* the loop over bodySchema.required
RECURSIVE AddBodyRequired(_, _, _)
AddBodyRequired(required, fields, properties) ==
    IF fields = <<>> THEN required
    ELSE LET reqField == Head(fields)
             propName == IF reqField \in DOMAIN properties
                         THEN reqField ELSE "body_" \o reqField
         IN AddBodyRequired(
                IF propName \in Range(required) THEN required
                ELSE Append(required, propName),
                Tail(fields), properties)

\* "Add request body to input schema": acc holds the parameters' properties
\* and required names
AddRequestBody(acc, operation, schemas) ==
    IF SelectedBodySchema(operation) = {} THEN acc
    ELSE
      LET body == operation.request_body
          bodySchema == convertSchemaToJSONSchema(
                            CHOOSE s \in SelectedBodySchema(operation) : TRUE,
                            schemas)
      IN IF /\ "type" \in DOMAIN bodySchema
            /\ bodySchema.type = "object"
            /\ "properties" \in DOMAIN bodySchema
         THEN LET properties ==
                      FlattenBodyProperties(
                          acc.properties,
                          KeysInOrder(DOMAIN bodySchema.properties),
                          bodySchema.properties)
              IN [properties |-> properties,
                  required |->
                      IF "required" \in DOMAIN bodySchema /\ body.required
                      THEN AddBodyRequired(acc.required, bodySchema.required,
                                           properties)
                      ELSE acc.required]
         ELSE [properties |->
                   ("body" :> (IF TruthyString(body, "description")
                               THEN ("description" :> body.description)
                                       @@ bodySchema
                               ELSE bodySchema))
                   @@ acc.properties,
               required |-> IF body.required
                            THEN Append(acc.required, "body")
                            ELSE acc.required]

operationToTool(operation, schemas) ==
    LET params == AddParameters([properties |-> <<>>, required |-> <<>>],
                                operation.parameters, schemas)
        all == AddRequestBody(params, operation, schemas)
    IN [name |-> sanitizeToolName(operation.operation_id),
        description |-> buildToolDescription(operation),
        inputSchema |-> [type |-> "object",
                         properties |-> all.properties,
                         required |-> all.required]]

\* the conversions operationToTool runs, one of which may never end
operationToToolOverflows(operation, schemas) ==
    \/ \E i \in 1..Len(operation.parameters) :
          convertOverflows(operation.parameters[i].schema, schemas, {})
    \/ \E s \in SelectedBodySchema(operation) :
          convertOverflows(s, schemas, {})

\* a direct call of the exported function
callOperationToTool(operation, schemas) ==
    IF operationToToolOverflows(operation, schemas)
    THEN Threw("RangeError")
    ELSE Returned(operationToTool(operation, schemas))

(***************************************************************************)
(* generateToolSchemas                                                     *)
(*                                                                         *)
(* The argument is any JavaScript value.  A value whose type the code      *)
(* tests carries that type: [typeof, truthy] for a primitive or undefined, *)
(* [typeof |-> "object", isNull] for null and for an object, whose         *)
(* fields are under "object".  The paths field, which the code tests with  *)
(* Array.isArray, is [isArray |-> TRUE, elements] or [isArray |-> FALSE,   *)
(* truthy].                                                                *)
(***************************************************************************)
JsNull == [typeof |-> "object", isNull |-> TRUE]
JsPrimitive(t, truthy) == [typeof |-> t, truthy |-> truthy]
JsObject(o) == [typeof |-> "object", isNull |-> FALSE, object |-> o]
JsArray(elements) == [isArray |-> TRUE, elements |-> elements]
JsNotArray(truthy) == [isArray |-> FALSE, truthy |-> truthy]

Truthy(v) == IF v.typeof = "object" THEN ~v.isNull ELSE v.truthy

\* the operations of the paths, in path order, then in each path's order
RECURSIVE AllOperations(_)
AllOperations(paths) ==
    IF paths = <<>> THEN <<>>
    ELSE Head(paths).operations \o AllOperations(Tail(paths))

\* for (const tag of tags) byTag[tag] = (byTag[tag] || 0) + 1
RECURSIVE CountTags(_, _)
CountTags(byTag, tags) ==
    IF tags = <<>> THEN byTag
    ELSE CountTags(
            (Head(tags) :> (IF Head(tags) \in DOMAIN byTag
                            THEN byTag[Head(tags)] ELSE 0) + 1) @@ byTag,
            Tail(tags))

\* the "Count by tag" step over the operations
RECURSIVE CountByTag(_, _)
CountByTag(byTag, operations) ==
    IF operations = <<>> THEN byTag
    ELSE LET operation == Head(operations)
             tags == IF "tags" \in DOMAIN operation
                     THEN operation.tags ELSE <<"untagged">>
         IN CountByTag(CountTags(byTag, tags), Tail(operations))

\* a plausible slip: the exception's message is not carried
internalErrorBare(message, error) ==
    errorResponse("INTERNAL_ERROR", message, <<>>)

\* the catch at the boundary of an entry point
internalError(message, error) ==
    errorResponse("INTERNAL_ERROR", message, [error |-> error])

\* the exception operationToTool ends with on this operation, if any: the
\* set holds its message
operationToToolThrows(operation, schemas) ==
    IF "parameters" \notin DOMAIN operation
    THEN {"operation.parameters is not iterable"}
    ELSE IF operationToToolOverflows(operation, schemas)
    THEN {StackOverflowMessage}
    ELSE {}

\* the paths before the first one whose operations cannot be iterated
RECURSIVE IterablePaths(_)
IterablePaths(paths) ==
    IF paths = <<>> \/ "operations" \notin DOMAIN Head(paths) THEN <<>>
    ELSE <<Head(paths)>> \o IterablePaths(Tail(paths))

\* the operations the loops reach, in order, when nothing throws
ReachedOperations(paths) == AllOperations(IterablePaths(paths))

\* the calls of operationToTool the loops make: every reached operation up
\* to the first whose conversion throws
ConvertedOperations(paths, schemas) ==
    LET ops == ReachedOperations(paths)
        throwing == {i \in 1..Len(ops) :
                        operationToToolThrows(ops[i], schemas) # {}}
    IN IF throwing = {} THEN ops
       ELSE SubSeq(ops, 1, CHOOSE i \in throwing : \A j \in throwing : i <= j)

\* the exception the loops end with, if any
generateThrows(paths, schemas) ==
    LET calls == ConvertedOperations(paths, schemas)
        last == IF calls = <<>> THEN {}
                ELSE operationToToolThrows(calls[Len(calls)], schemas)
    IN IF last # {} THEN last
       ELSE IF Len(IterablePaths(paths)) < Len(paths)
       THEN {"path.operations is not iterable"}
       ELSE {}

\* a plausible slip: byTag is kept between invocations, so an invocation
\* starts from the counts the one before it ended with
byTagLeftBehind ==
    IF invocations # <<>> /\ invocations[Len(invocations)].ret.ok
    THEN invocations[Len(invocations)].ret.data.summary.by_tag
    ELSE <<>>

\* const byTag = {}: an object of this invocation
newByTag == <<>>

\* a plausible slip: only the presence of paths is asked for
HasPathsArrayAnyValue(spec) == "paths" \in DOMAIN spec

\* !(!parsedSpec.paths || !Array.isArray(parsedSpec.paths))
HasPathsArray(spec) == "paths" \in DOMAIN spec /\ spec.paths.isArray

\* what a paths value holds for the loop: its elements when it is an array
PathElements(spec) ==
    IF "elements" \in DOMAIN spec.paths THEN spec.paths.elements ELSE <<>>

SchemasOf(spec) == IF "schemas" \in DOMAIN spec THEN spec.schemas ELSE <<>>

generateToolSchemas(parsedSpec) ==
    IF ~Truthy(parsedSpec) \/ parsedSpec.typeof # "object"
    THEN errorResponse("INVALID_INPUT", "Invalid parsed spec provided", <<>>)
    ELSE
      LET spec == parsedSpec.object
      IN IF ~HasPathsArray(spec)
         THEN errorResponse("INVALID_INPUT",
                            "Parsed spec must contain paths array", <<>>)
         ELSE
           LET schemas == SchemasOf(spec)
               thrown == generateThrows(PathElements(spec), schemas)
           IN IF thrown # {}
              THEN internalError("Failed to generate tool schemas",
                                 CHOOSE m \in thrown : TRUE)
              ELSE LET operations == AllOperations(PathElements(spec))
                       tools == [i \in 1..Len(operations) |->
                                    operationToTool(operations[i], schemas)]
                   IN successResponse(
                          [tools |-> tools,
                           summary |-> [total_tools |-> Len(tools),
                                        by_tag |-> CountByTag(newByTag,
                                                              operations)]],
                          <<>>)

\* Objects have identity: an assignment to a field of an object of the
\* input document changes the document.  The object a call of
\* convertSchemaToJSONSchema returns is one it made ([made |-> TRUE]) or a
\* component schema of the table ([component |-> name]).

\* a plausible slip: return refSchema, the component itself
ReturnedObjectResolved(schema, allSchemas) ==
    IF HasRef(schema) /\ RefName(schema) \in DOMAIN allSchemas
    THEN [component |-> RefName(schema)]
    ELSE [made |-> TRUE]

\* the object convertSchemaToJSONSchema returns: what the call on the
\* resolved schema returns, or the literal, merged or jsonSchema of this call
RECURSIVE ReturnedObject(_, _)
ReturnedObject(schema, allSchemas) ==
    IF HasRef(schema) /\ RefName(schema) \in DOMAIN allSchemas
    THEN ReturnedObject(allSchemas[RefName(schema)], allSchemas)
    ELSE [made |-> TRUE]

\* the assignments of a description operationToTool makes, in order: to the
\* node of each parameter that has one, and to the node under "body"
DescriptionWrites(operation, schemas) ==
    LET described == SelectSeq(operation.parameters,
                               LAMBDA param : TruthyString(param, "description"))
        ofParameters ==
            [i \in 1..Len(described) |->
                [object |-> ReturnedObject(described[i].schema, schemas),
                 description |-> described[i].description]]
        wrapped ==
            {s \in SelectedBodySchema(operation) :
                LET bodySchema == convertSchemaToJSONSchema(s, schemas)
                IN ~(/\ "type" \in DOMAIN bodySchema
                     /\ bodySchema.type = "object"
                     /\ "properties" \in DOMAIN bodySchema)}
        ofBody ==
            IF wrapped # {} /\ TruthyString(operation.request_body, "description")
            THEN <<[object |-> ReturnedObject(CHOOSE s \in wrapped : TRUE,
                                              schemas),
                    description |-> operation.request_body.description]>>
            ELSE <<>>
    IN ofParameters \o ofBody

\* the table after the assignments: those to a component change it
RECURSIVE ApplyWrites(_, _)
ApplyWrites(schemas, writes) ==
    IF writes = <<>> THEN schemas
    ELSE LET w == Head(writes)
         IN ApplyWrites(
              IF "component" \in DOMAIN w.object
              THEN [schemas EXCEPT ![w.object.component] =
                       ("description" :> w.description) @@ @]
              ELSE schemas,
              Tail(writes))

RECURSIVE WritesOfAll(_, _)
WritesOfAll(operations, schemas) ==
    IF operations = <<>> THEN <<>>
    ELSE DescriptionWrites(Head(operations), schemas)
         \o WritesOfAll(Tail(operations), schemas)

\* the input document as generateToolSchemas leaves it: the operations
\* converted before anything throws have made their assignments
generateToolSchemasLeaves(parsedSpec) ==
    IF ~Truthy(parsedSpec) \/ parsedSpec.typeof # "object" THEN parsedSpec
    ELSE IF ~HasPathsArray(parsedSpec.object) THEN parsedSpec
    ELSE IF "schemas" \notin DOMAIN parsedSpec.object THEN parsedSpec
    ELSE LET spec == parsedSpec.object
             done == SelectSeq(
                        ConvertedOperations(PathElements(spec), spec.schemas),
                        LAMBDA operation :
                           operationToToolThrows(operation, spec.schemas) = {})
         IN [parsedSpec EXCEPT !.object.schemas =
                ApplyWrites(spec.schemas, WritesOfAll(done, spec.schemas))]

\* the calls of operationToTool one invocation makes
generateToolSchemasCalls(parsedSpec) ==
    IF ~Truthy(parsedSpec) \/ parsedSpec.typeof # "object" THEN <<>>
    ELSE IF ~HasPathsArray(parsedSpec.object) THEN <<>>
    ELSE [i \in 1..Len(ConvertedOperations(PathElements(parsedSpec.object),
                                           SchemasOf(parsedSpec.object))) |->
             "operationToTool"]

(***************************************************************************)
(* The parser (parse.ts)                                                   *)
(*                                                                         *)
(* The document parseSpec reads is the one SwaggerParser.dereference       *)
(* returned.  Dereferencing replaces a $ref by the object it points to, so *)
(* a recursive schema becomes a circular object.  The schema position that *)
(* holds the object of components.schemas[n] is written [link |-> n];      *)
(* objects is the table of those objects.  A $ref the dereferencer left in *)
(* place is a "$ref" key, as in a ParsedSchema.  A type that is an array   *)
(* of types is held under "typeList".  A path and an operationId are       *)
(* sequences of characters, and so is a version, under "str"; a version    *)
(* that is a number is under "num".                                        *)
(***************************************************************************)
IsLink(schema) == "link" \in DOMAIN schema

\* '$ref' in obj
isRef(obj) == "$ref" \in DOMAIN obj

\* keys parseSchema copies when their value is truthy (a non-empty string)
ParsedIfTruthy == {"format", "description", "title", "pattern"}
\* keys parseSchema copies when present
ParsedIfPresent == {"enum", "default", "example", "minimum", "maximum",
                    "minLength", "maxLength", "required"}

ParsedScalars(schema) ==
    {k \in DOMAIN schema :
        \/ k \in ParsedIfTruthy /\ schema[k] # ""
        \/ k \in ParsedIfPresent
        \/ k = "nullable" /\ schema[k]}

RECURSIVE parseSchema(_, _)
parseSchema(schema, objects) ==
    IF IsLink(schema) THEN parseSchema(objects[schema.link], objects)
    ELSE IF isRef(schema) THEN "$ref" :> schema["$ref"]
    ELSE
      LET parse(s) == parseSchema(s, objects)
          parseAll(ss) == [i \in 1..Len(ss) |-> parse(ss[i])]
          type == IF "typeList" \in DOMAIN schema
                  THEN "type" :> schema.typeList[1]
                  ELSE IF "type" \in DOMAIN schema /\ schema.type # ""
                  THEN "type" :> schema.type
                  ELSE <<>>
          scalars == [k \in ParsedScalars(schema) |-> schema[k]]
          props == IF "properties" \in DOMAIN schema
                   THEN "properties" :>
                          [key \in DOMAIN schema.properties |->
                              parse(schema.properties[key])]
                   ELSE <<>>
          items == IF "items" \in DOMAIN schema
                   THEN "items" :> parse(schema.items) ELSE <<>>
          lists == [k \in {"oneOf", "anyOf", "allOf"} \cap DOMAIN schema |->
                       parseAll(schema[k])]
          addl == IF "additionalPropertiesBool" \in DOMAIN schema
                  THEN "additionalPropertiesBool" :>
                          schema.additionalPropertiesBool
                  ELSE IF "additionalProperties" \in DOMAIN schema
                  THEN "additionalProperties" :>
                          parse(schema.additionalProperties)
                  ELSE <<>>
      IN type @@ scalars @@ props @@ items @@ lists @@ addl

\* parseSchema has no visited set and no depth bound either: it ends exactly
\* when no object comes up again below itself.  stack holds the objects the
\* recursion is inside of.
RECURSIVE parseSchemaOverflows(_, _, _)
parseSchemaOverflows(schema, objects, stack) ==
    IF IsLink(schema)
    THEN \/ schema.link \in stack
         \/ parseSchemaOverflows(objects[schema.link], objects,
                                 stack \cup {schema.link})
    ELSE IF isRef(schema) THEN FALSE
    ELSE
      LET over(s) == parseSchemaOverflows(s, objects, stack)
      IN \/ "properties" \in DOMAIN schema /\
            \E key \in DOMAIN schema.properties : over(schema.properties[key])
         \/ "items" \in DOMAIN schema /\ over(schema.items)
         \/ \E k \in {"oneOf", "anyOf", "allOf"} \cap DOMAIN schema :
               \E i \in 1..Len(schema[k]) : over(schema[k][i])
         \/ /\ "additionalPropertiesBool" \notin DOMAIN schema
            /\ "additionalProperties" \in DOMAIN schema
            /\ over(schema.additionalProperties)

\* a plausible slip: the location is not looked at
parseParametersAsMarked(parameters, objects) ==
    LET inline == SelectSeq(parameters, LAMBDA param : ~isRef(param))
    IN [i \in 1..Len(inline) |->
          LET param == inline[i]
          IN [k \in {"description", "deprecated"} \cap DOMAIN param |-> param[k]]
             @@ [name |-> param.name,
                 in |-> param.in,
                 required |-> "required" \in DOMAIN param /\ param.required,
                 schema |-> parseSchema(IF "schema" \in DOMAIN param
                                        THEN param.schema
                                        ELSE [type |-> "string"], objects)]]

parseParameters(parameters, objects) ==
    LET inline == SelectSeq(parameters, LAMBDA param : ~isRef(param))
    IN [i \in 1..Len(inline) |->
          LET param == inline[i]
          IN [k \in {"description", "deprecated"} \cap DOMAIN param |-> param[k]]
             @@ [name |-> param.name,
                 in |-> param.in,
                 required |-> \/ "required" \in DOMAIN param /\ param.required
                              \/ param.in = "path",
                 schema |-> parseSchema(IF "schema" \in DOMAIN param
                                        THEN param.schema
                                        ELSE [type |-> "string"], objects)]]

\* the content mapping of a request body or a response
parseContent(content, objects) ==
    [i \in 1..Len(content) |->
        [mediaType |-> content[i].mediaType,
         media |-> [schema |-> parseSchema(
                                   IF "schema" \in DOMAIN content[i].media
                                   THEN content[i].media.schema
                                   ELSE <<>>, objects)]]]

\* the set is empty when parseRequestBody returns undefined
parseRequestBody(requestBody, objects) ==
    IF isRef(requestBody) THEN {}
    ELSE {[k \in {"description"} \cap DOMAIN requestBody |-> requestBody[k]]
          @@ [required |-> "required" \in DOMAIN requestBody
                             /\ requestBody.required,
              content |-> IF "content" \in DOMAIN requestBody
                          THEN parseContent(requestBody.content, objects)
                          ELSE <<>>]}

\* responses is the sequence of the object's entries
parseResponses(responses, objects) ==
    LET inline == SelectSeq(responses, LAMBDA r : ~isRef(r.response))
    IN [i \in 1..Len(inline) |->
          [status_code |-> inline[i].statusCode,
           description |-> IF "description" \in DOMAIN inline[i].response
                           THEN inline[i].response.description ELSE ""]
          @@ (IF "content" \in DOMAIN inline[i].response
              THEN [content |-> parseContent(inline[i].response.content,
                                             objects)]
              ELSE <<>>)]

\* a plausible slip: the braces are left for the next replacement
StripBracesLeft(s, i) == SubSeq(s, i, Len(s))

\* path.replace(/\{([^}]+)\}/g, '$1'), from position i on: a "{" whose next
\* "}" is at least two places on is a match, and its braces go
RECURSIVE StripBraces(_, _)
StripBraces(s, i) ==
    IF i > Len(s) THEN <<>>
    ELSE LET closing == {j \in (i+1)..Len(s) : s[j] = "}"}
             j == CHOOSE x \in closing : \A y \in closing : x <= y
         IN IF s[i] = "{" /\ closing # {} /\ j >= i + 2
            THEN SubSeq(s, i + 1, j - 1) \o StripBraces(s, j + 1)
            ELSE <<s[i]>> \o StripBraces(s, i + 1)

\* s.replace(/[^a-zA-Z0-9]+/g, '_')
ReplaceNonAlphaNumRuns(s) ==
    LET F[i \in 0..Len(s)] ==
            IF i = 0 THEN <<>>
            ELSE IF s[i] \in AlphaNum THEN Append(F[i-1], s[i])
            ELSE IF i > 1 /\ s[i-1] \notin AlphaNum THEN F[i-1]
            ELSE Append(F[i-1], "_")
    IN F[Len(s)]

generateOperationId(method, path) ==
    LET p1 == IF path # <<>> /\ path[1] = "/" THEN Tail(path) ELSE path
        p2 == StripBraces(p1, 1)
        p3 == ReplaceNonAlphaNumRuns(p2)
        p4 == CollapseUnderscores(p3)
        pathPart == StripEdgeUnderscores(p4)
    IN toLowerCase(method \o <<"_">> \o pathPart)

\* String.prototype.toUpperCase on one ASCII character
UpperChar(c) ==
    IF c \in Range(LowerCase)
    THEN UpperCase[CHOOSE i \in 1..Len(LowerCase) : LowerCase[i] = c]
    ELSE c

toUpperCase(s) == [i \in 1..Len(s) |-> UpperChar(s[i])]

parseOperation(method, path, operation, pathParameters, objects) ==
    LET operationId ==
            IF "operationId" \in DOMAIN operation /\ operation.operationId # <<>>
            THEN operation.operationId
            ELSE generateOperationId(method, path)
        allParameters ==
            pathParameters \o (IF "parameters" \in DOMAIN operation
                               THEN operation.parameters ELSE <<>>)
        body == IF "requestBody" \in DOMAIN operation
                THEN parseRequestBody(operation.requestBody, objects) ELSE {}
    IN [k \in {"summary", "description", "tags", "security", "deprecated"}
              \cap DOMAIN operation |-> operation[k]]
       @@ [method |-> toUpperCase(method),
           operation_id |-> operationId,
           parameters |-> parseParameters(allParameters, objects),
           responses |-> parseResponses(IF "responses" \in DOMAIN operation
                                        THEN operation.responses ELSE <<>>,
                                        objects)]
       @@ (IF body = {} THEN <<>>
           ELSE [request_body |-> CHOOSE b \in body : TRUE])

\* const methods = [...]
Methods == << <<"g","e","t">>, <<"p","u","t">>, <<"p","o","s","t">>,
              <<"d","e","l","e","t","e">>, <<"o","p","t","i","o","n","s">>,
              <<"h","e","a","d">>, <<"p","a","t","c","h">>,
              <<"t","r","a","c","e">> >>

\* a plausible slip: the operations are taken in the order of the path
\* item's own keys (keys, where an input records that order)
parsePathOperationsInKeyOrder(path, pathItem, objects) ==
    LET pathParameters == IF "parameters" \in DOMAIN pathItem
                          THEN pathItem.parameters ELSE <<>>
        named(k) == {m \in Range(Methods) : Join(m) = k}
        inOrder == IF "keys" \in DOMAIN pathItem
                   THEN SelectSeq(pathItem.keys, LAMBDA k : named(k) # {})
                   ELSE <<>>
        present == IF "keys" \in DOMAIN pathItem
                   THEN [i \in 1..Len(inOrder) |->
                            CHOOSE m \in named(inOrder[i]) : TRUE]
                   ELSE SelectSeq(Methods,
                                  LAMBDA m : Join(m) \in DOMAIN pathItem)
    IN [i \in 1..Len(present) |->
          parseOperation(present[i], path, pathItem[Join(present[i])],
                         pathParameters, objects)]

parsePathOperations(path, pathItem, objects) ==
    LET pathParameters == IF "parameters" \in DOMAIN pathItem
                          THEN pathItem.parameters ELSE <<>>
        present == SelectSeq(Methods, LAMBDA m : Join(m) \in DOMAIN pathItem)
    IN [i \in 1..Len(present) |->
          parseOperation(present[i], path, pathItem[Join(present[i])],
                         pathParameters, objects)]

\* paths is the sequence of the paths object's entries
parsePaths(paths, objects) ==
    [i \in 1..Len(paths) |->
        [path |-> paths[i].path,
         operations |-> parsePathOperations(paths[i].path, paths[i].item,
                                            objects)]]

parseSchemas(schemas, objects) ==
    [name \in DOMAIN schemas |-> parseSchema(schemas[name], objects)]

\* servers is <<>> when the document has none
parseServers(servers) ==
    [i \in 1..Len(servers) |->
        [k \in {"url", "description"} \cap DOMAIN servers[i] |-> servers[i][k]]
        @@ (IF "variables" \in DOMAIN servers[i]
            THEN [variables |->
                    [v \in DOMAIN servers[i].variables |->
                        [k \in {"default", "enum", "description"}
                               \cap DOMAIN servers[i].variables[v] |->
                            servers[i].variables[v][k]]]]
            ELSE <<>>)]

\* one entry of parsed.flows: the urls under their snake_case names
parseFlow(flow, urls) ==
    [k \in {"scopes"} \cap DOMAIN flow |-> flow[k]]
    @@ (IF "authorization_url" \in urls /\ "authorizationUrl" \in DOMAIN flow
        THEN [authorization_url |-> flow.authorizationUrl] ELSE <<>>)
    @@ (IF "token_url" \in urls /\ "tokenUrl" \in DOMAIN flow
        THEN [token_url |-> flow.tokenUrl] ELSE <<>>)

FlowUrls ==
    [implicit |-> {"authorization_url"},
     password |-> {"token_url"},
     clientCredentials |-> {"token_url"},
     authorizationCode |-> {"authorization_url", "token_url"}]

parseSecurityScheme(scheme) ==
    [k \in {"type", "description"} \cap DOMAIN scheme |-> scheme[k]]
    @@ (CASE scheme.type = "apiKey" ->
                [k \in {"name", "in"} \cap DOMAIN scheme |-> scheme[k]]
          [] scheme.type = "http" ->
                [k \in {"scheme"} \cap DOMAIN scheme |-> scheme[k]]
                @@ (IF "bearerFormat" \in DOMAIN scheme
                    THEN [bearer_format |-> scheme.bearerFormat] ELSE <<>>)
          [] scheme.type = "oauth2" /\ "flows" \in DOMAIN scheme ->
                [flows |-> [f \in DOMAIN FlowUrls \cap DOMAIN scheme.flows |->
                               parseFlow(scheme.flows[f], FlowUrls[f])]]
          [] scheme.type = "openIdConnect"
             /\ "openIdConnectUrl" \in DOMAIN scheme ->
                [open_id_connect_url |-> scheme.openIdConnectUrl]
          [] OTHER -> <<>>)

parseSecuritySchemes(schemes) ==
    [name \in {n \in DOMAIN schemes : ~isRef(schemes[n])} |->
        parseSecurityScheme(schemes[name])]

ComponentsOf(spec, key) ==
    IF "components" \in DOMAIN spec /\ key \in DOMAIN spec.components
    THEN spec.components[key] ELSE <<>>

parseSpec(spec) ==
    LET objects == ComponentsOf(spec, "schemas")
    IN [openapi_version |-> spec.openapi,
        info |-> [k \in {"title", "version", "description"}
                        \cap DOMAIN spec.info |-> spec.info[k]],
        servers |-> parseServers(IF "servers" \in DOMAIN spec
                                THEN spec.servers ELSE <<>>),
        paths |-> parsePaths(IF "paths" \in DOMAIN spec THEN spec.paths
                             ELSE <<>>, objects),
        schemas |-> parseSchemas(objects, objects),
        security_schemes |->
            parseSecuritySchemes(ComponentsOf(spec, "securitySchemes"))]

\* every schema position parseSpec hands to parseSchema
SchemasOfContent(content) ==
    {content[i].media.schema :
        i \in {j \in 1..Len(content) : "schema" \in DOMAIN content[j].media}}

SchemasOfOperation(operation, pathParameters) ==
    LET params == pathParameters \o (IF "parameters" \in DOMAIN operation
                                     THEN operation.parameters ELSE <<>>)
    IN {params[i].schema :
           i \in {j \in 1..Len(params) :
                     ~isRef(params[j]) /\ "schema" \in DOMAIN params[j]}}
       \cup (IF /\ "requestBody" \in DOMAIN operation
                /\ ~isRef(operation.requestBody)
                /\ "content" \in DOMAIN operation.requestBody
             THEN SchemasOfContent(operation.requestBody.content) ELSE {})
       \cup (IF "responses" \in DOMAIN operation
             THEN UNION {SchemasOfContent(operation.responses[i].response.content) :
                           i \in {j \in 1..Len(operation.responses) :
                                    /\ ~isRef(operation.responses[j].response)
                                    /\ "content" \in DOMAIN
                                          operation.responses[j].response}}
             ELSE {})

SchemasOfSpec(spec) ==
    Range2(ComponentsOf(spec, "schemas"))
    \cup (IF "paths" \in DOMAIN spec
          THEN UNION {UNION {SchemasOfOperation(
                                spec.paths[i].item[Join(m)],
                                IF "parameters" \in DOMAIN spec.paths[i].item
                                THEN spec.paths[i].item.parameters ELSE <<>>) :
                             m \in {x \in Range(Methods) :
                                      Join(x) \in DOMAIN spec.paths[i].item}} :
                      i \in 1..Len(spec.paths)}
          ELSE {})

\* what ends parseSpec with an exception: reading spec.info.title when
\* there is no info, and a recursion that does not end; the set holds the
\* exception's message and is empty when parseSpec returns
parseSpecThrows(spec) ==
    IF "info" \notin DOMAIN spec
    THEN {"Cannot read properties of undefined (reading 'title')"}
    ELSE IF \E s \in SchemasOfSpec(spec) :
               parseSchemaOverflows(s, ComponentsOf(spec, "schemas"), {})
    THEN {StackOverflowMessage}
    ELSE {}

\* s.startsWith('3.')
StartsWith3Dot(s) == Len(s) >= 2 /\ s[1] = "3" /\ s[2] = "."

\* a plausible slip: the dot after the 3 is not asked for
isOpenAPIV3AnyThree(spec) ==
    /\ "openapi" \in DOMAIN spec
    /\ "str" \in DOMAIN spec.openapi
    /\ Len(spec.openapi.str) >= 1 /\ spec.openapi.str[1] = "3"

\* spec is an object: dereference returns nothing else
isOpenAPIV3(spec) ==
    /\ "openapi" \in DOMAIN spec
    /\ "str" \in DOMAIN spec.openapi
    /\ StartsWith3Dot(spec.openapi.str)

\* a version value that is truthy: a non-empty string, a number that is not 0
TruthyVersion(spec, key) ==
    /\ key \in DOMAIN spec
    /\ IF "str" \in DOMAIN spec[key] THEN spec[key].str # <<>>
       ELSE spec[key].num # 0

\* spec.openapi || spec.swagger || 'unknown'
providedVersion(spec) ==
    IF TruthyVersion(spec, "openapi") THEN spec.openapi
    ELSE IF TruthyVersion(spec, "swagger") THEN spec.swagger
    ELSE [str |-> <<"unknown">>]

\* a plausible slip: startsWith('{') on the text as given, as line 71 has it
IsJsonInputUntrimmed(specUrlOrJson) ==
    specUrlOrJson # <<>> /\ Head(specUrlOrJson) = "{"

\* specUrlOrJson.trim().startsWith('{'); the text is a sequence of tokens,
\* " " the whitespace and "{" the brace
IsJsonInput(specUrlOrJson) ==
    Trim(specUrlOrJson) # <<>> /\ Head(Trim(specUrlOrJson)) = "{"

\* The environment of one call: jsonParses tells whether JSON.parse accepts
\* the text; dereference is what SwaggerParser.dereference does when it is
\* called: [raised |-> message] or [spec |-> the document it returns].
\* The result is the envelope and the callees that ran.
openapiParse(specUrlOrJson, jsonParses, dereference) ==
    IF IsJsonInput(specUrlOrJson) /\ ~jsonParses
    THEN [ret |-> errorResponse("PARSE_ERROR", "Invalid JSON provided",
                                [error |-> "Unexpected token"]),
          steps |-> <<"JSON.parse">>]
    ELSE
      LET before == IF IsJsonInput(specUrlOrJson)
                    THEN <<"JSON.parse", "dereference">> ELSE <<"dereference">>
      IN IF "raised" \in DOMAIN dereference
         THEN [ret |-> IF IsJsonInput(specUrlOrJson)
                       THEN errorResponse("PARSE_ERROR", "Invalid JSON provided",
                                          [error |-> dereference.raised])
                       ELSE errorResponse(
                              "UPSTREAM_ERROR",
                              "Failed to fetch or parse OpenAPI spec from URL",
                              [url |-> specUrlOrJson,
                               error |-> dereference.raised]),
               steps |-> before]
         ELSE
           LET spec == dereference.spec
           IN IF ~isOpenAPIV3(spec)
              THEN [ret |-> errorResponse(
                              "INVALID_INPUT",
                              "Only OpenAPI 3.0 and 3.1 specifications are supported",
                              [provided_version |-> providedVersion(spec)]),
                    steps |-> Append(before, "isOpenAPIV3")]
              ELSE IF parseSpecThrows(spec) # {}
              THEN [ret |-> internalError(
                              "Unexpected error while parsing OpenAPI spec",
                              CHOOSE m \in parseSpecThrows(spec) : TRUE),
                    steps |-> before \o <<"isOpenAPIV3", "parseSpec">>]
              ELSE [ret |-> successResponse(
                              parseSpec(spec),
                              [source |->
                                  IF specUrlOrJson # <<>>
                                     /\ Head(specUrlOrJson) = "{"
                                  THEN <<"json_input">> ELSE specUrlOrJson]),
                    steps |-> before \o <<"isOpenAPIV3", "parseSpec">>]

(***************************************************************************)
(* Inputs of the schema functions                                          *)
(***************************************************************************)
\* a reference is a leaf: the normalizer keeps nothing beside "$ref"
\* (parse.ts:271-273)
RefTo(name) == "$ref" :> <<RefPrefix, name>>

StrSchema == [type |-> "string"]
IntSchema == [type |-> "integer", minimum |-> 0, maximum |-> 10]
EnumSchema == [type |-> "string", enum |-> <<"a", "b">>, default |-> "a",
               description |-> "kind"]

\* holds the metadata the normalizer keeps beside the ones above
TitledSchema == [type |-> "string", title |-> "Name", example |-> "rex",
                 nullable |-> TRUE, minLength |-> 1, maxLength |-> 8,
                 pattern |-> "^[a-z]+$", format |-> "hostname"]

ObjName == [type |-> "object", properties |-> [name |-> StrSchema],
            required |-> <<"name">>]
ObjId == [type |-> "object", properties |-> [id |-> IntSchema],
          required |-> <<"id">>]
\* shares "name" with ObjName, with another schema under it
ObjNameTag == [type |-> "object",
               properties |-> [name |-> IntSchema, tag |-> RefTo("Owner")],
               required |-> <<"name", "tag">>]
ObjNoRequired == [type |-> "object", properties |-> [id |-> StrSchema]]
\* requires a name it has no property for
ObjGhost == [type |-> "object", properties |-> [name |-> StrSchema],
             required |-> <<"name", "ghost">>]
ObjEmpty == [type |-> "object", properties |-> <<>>]

\* the components table of a document without recursive schemas
AcyclicComponents ==
    [Pet |-> [type |-> "object",
              properties |-> [name |-> StrSchema, owner |-> RefTo("Owner")],
              required |-> <<"name">>],
     Owner |-> [type |-> "object", properties |-> [id |-> IntSchema],
                required |-> <<"id">>],
     PetList |-> [type |-> "array", items |-> RefTo("Pet")]]

\* recursive schemas: through properties, a reference to itself, and two
\* schemas that reach each other through items and allOf
CyclicComponents ==
    [Node |-> [type |-> "object",
               properties |-> [child |-> RefTo("Node")]],
     Loop |-> RefTo("Loop"),
     Ping |-> [type |-> "array", items |-> RefTo("Pong")],
     Pong |-> [allOf |-> <<RefTo("Ping")>>]]

ComponentTables ==
    {<<>>, AcyclicComponents, AcyclicComponents @@ CyclicComponents}

RefSchemas ==
    {RefTo("Pet"), RefTo("Owner"), RefTo("PetList"), RefTo("Missing"),
     "$ref" :> <<"Pet">>,                      \* the bare name
     "$ref" :> <<"#/definitions/", "Pet">>,    \* another prefix
     RefTo("Node"), RefTo("Loop"), RefTo("Ping")}

\* the schemas composite schemas are built from
MemberSchemas ==
    {StrSchema, IntSchema, EnumSchema, TitledSchema, ObjName, ObjId,
     ObjNameTag, ObjNoRequired, ObjGhost, ObjEmpty} \cup RefSchemas

\* the members of the allOf lists
AllOfMembers ==
    {StrSchema, ObjName, ObjId, ObjNameTag, ObjNoRequired, ObjGhost,
     [required |-> <<"id">>],
     RefTo("Pet"), RefTo("Owner"), RefTo("Missing"), RefTo("Node")}

\* longest allOf list of the inputs
MaxAllOfLen == 2

AllOfSchemas == {[allOf |-> ms] : ms \in SeqsUpTo(AllOfMembers, MaxAllOfLen)}

\* what a schema may hold beside allOf
AllOfSiblings ==
    {[type |-> "array"], [description |-> "both"],
     [properties |-> [extra |-> StrSchema]], [required |-> <<"extra">>],
     [items |-> StrSchema], [oneOf |-> <<StrSchema, IntSchema>>],
     [anyOf |-> <<IntSchema>>], [additionalProperties |-> StrSchema],
     [additionalPropertiesBool |-> FALSE], [format |-> "uuid"],
     [additionalProperties |-> RefTo("Node")],
     [enum |-> <<"a", "b">>, default |-> "a"]}

CompositeSchemas ==
    {[type |-> "array", items |-> m] : m \in MemberSchemas}
    \cup {[oneOf |-> <<m, StrSchema>>] : m \in MemberSchemas}
    \cup {[anyOf |-> <<IntSchema, m>>] : m \in MemberSchemas}
    \cup {[type |-> "object", additionalProperties |-> m] : m \in MemberSchemas}
    \cup {[type |-> "object", properties |-> [id |-> m],
           additionalPropertiesBool |-> b] : m \in MemberSchemas, b \in BOOLEAN}
    \cup {[allOf |-> <<a, m>>] : a \in AllOfSchemas, m \in {ObjId, RefTo("Pet")}}
    \* allOf beside other keys
    \cup {[type |-> "string", description |-> "both", allOf |-> <<m>>,
           properties |-> [extra |-> StrSchema]] : m \in AllOfMembers}
    \* allOf beside each of the other keys
    \cup {[allOf |-> <<m>>] @@ sibling :
            m \in {ObjName, StrSchema}, sibling \in AllOfSiblings}
    \* a reference string that is empty is no reference
    \cup {"$ref" :> <<>>}

SchemaInputs == MemberSchemas \cup AllOfSchemas \cup CompositeSchemas

(***************************************************************************)
(* Inputs of operationToTool and generateToolSchemas                       *)
(***************************************************************************)
ParamId == [name |-> "id", in |-> "path", required |-> TRUE,
            schema |-> IntSchema]
ParamName == [name |-> "name", in |-> "query", required |-> FALSE,
              schema |-> StrSchema, description |-> "filter"]
ParamOwner == [name |-> "owner", in |-> "query", required |-> TRUE,
               schema |-> RefTo("Owner"), description |-> ""]
ParamBodyId == [name |-> "body_id", in |-> "header", required |-> TRUE,
                schema |-> StrSchema]
\* its schema is a recursive component
ParamNode == [name |-> "child", in |-> "query", required |-> FALSE,
              schema |-> RefTo("Node")]

ParamPet == [name |-> "pet", in |-> "query", required |-> FALSE,
             schema |-> RefTo("Pet"), description |-> "the pet"]

Parameters == {ParamId, ParamName, ParamOwner, ParamBodyId, ParamNode}

\* longest parameter list of the inputs
MaxParams == 2

ParameterLists == SeqsUpTo(Parameters, MaxParams)

ArrayOfStr == [type |-> "array", items |-> StrSchema]

BodySchemas ==
    {ObjName, ObjId, ObjNameTag, ObjNoRequired, ObjGhost, ObjEmpty,
     ArrayOfStr, StrSchema,
     [type |-> "object", properties |-> [body |-> StrSchema, id |-> IntSchema],
      required |-> <<"body">>],
     RefTo("Pet"), RefTo("PetList"), RefTo("Missing"), RefTo("Node"),
     [allOf |-> <<ObjName, ObjId>>], [allOf |-> <<StrSchema>>],
     [oneOf |-> <<ObjName, ObjId>>],
     [type |-> "object", additionalProperties |-> StrSchema]}

Json(s) == [mediaType |-> "application/json", media |-> [schema |-> s]]
Form(s) == [mediaType |-> "application/x-www-form-urlencoded",
            media |-> [schema |-> s]]
Xml(s) == [mediaType |-> "application/xml", media |-> [schema |-> s]]

RequestBodies ==
    {[required |-> r, content |-> <<Json(s)>>] :
        r \in BOOLEAN, s \in BodySchemas}
    \cup {[required |-> r, description |-> d, content |-> c] :
            r \in BOOLEAN, d \in {"", "payload"},
            c \in {<<Xml(ArrayOfStr), Json(ObjName)>>,
                   <<Xml(ObjId), Form(ArrayOfStr)>>,
                   <<Xml(ObjName), [mediaType |-> "text/plain",
                                    media |-> [schema |-> StrSchema]]>>,
                   <<Form(StrSchema)>>,
                   \* no content, and a content type without a schema
                   <<>>,
                   <<[mediaType |-> "application/json", media |-> <<>>]>>}}

BaseOperation == [operation_id |-> <<"o", "p">>, method |-> <<"POST">>]

\* the operations that differ in parameters and request body
BodyOperations ==
    {BaseOperation @@ [parameters |-> ps] : ps \in ParameterLists}
    \cup {BaseOperation @@ [parameters |-> ps, request_body |-> b] :
            ps \in ParameterLists, b \in RequestBodies}

Texts == {<<>>, <<"List", " ", "pets">>, <<"All", " ", "pets">>, <<" ">>}

\* the operations that differ in what their name and description are built
\* from
DescribedOperations ==
    {[operation_id |-> id, method |-> m, parameters |-> <<>>] @@ s @@ d @@ dep :
        id \in {<<"g", "e", "t", "P", "e", "t">>, <<"g", "e", "t", " ", "p">>},
        m \in {<<"GET">>, <<>>},
        s \in {<<>>} \cup {[summary |-> x] : x \in Texts},
        d \in {<<>>} \cup {[description |-> x] : x \in Texts},
        dep \in {<<>>, [deprecated |-> TRUE], [deprecated |-> FALSE]}}

OperationInputs == BodyOperations \cup DescribedOperations

OperationTables == {AcyclicComponents, AcyclicComponents @@ CyclicComponents}

\* the operations the documents are made of: with and without tags, with a
\* flattened body, and one whose parameter is a recursive component
DocOperations ==
    {[operation_id |-> <<"l", "i", "s", "t">>, method |-> <<"GET">>,
      parameters |-> <<ParamName>>, tags |-> <<"pets">>],
     [operation_id |-> <<"a", "d", "d">>, method |-> <<"POST">>,
      parameters |-> <<ParamId>>, tags |-> <<"pets", "admin">>,
      request_body |-> [required |-> TRUE, content |-> <<Json(RefTo("Pet"))>>]],
     [operation_id |-> <<"d", "e", "l">>, method |-> <<"DELETE">>,
      parameters |-> <<ParamId, ParamOwner>>],
     [operation_id |-> <<"t", "r", "e", "e">>, method |-> <<"GET">>,
      parameters |-> <<ParamNode>>, tags |-> <<>>],
     \* descriptions on nodes converted from components
     [operation_id |-> <<"f", "i", "n", "d">>, method |-> <<"PUT">>,
      parameters |-> <<ParamPet>>,
      request_body |-> [required |-> FALSE, description |-> "payload",
                        content |-> <<Json(RefTo("PetList"))>>]]}

\* most operations in a document
MaxDocOperations == 3

\* a document: its operations in order, the first k under the first path,
\* the others under the second, with or without a components table
ParsedDocuments ==
    UNION {
      {JsObject([paths |-> JsArray(
                     << [path |-> "/a", operations |-> SubSeq(ops, 1, k)],
                        [path |-> "/b",
                         operations |-> SubSeq(ops, k + 1, Len(ops))] >>)]
                @@ s) :
          k \in 0..Len(ops),
          s \in {<<>>, [schemas |-> AcyclicComponents],
                 [schemas |-> AcyclicComponents @@ CyclicComponents]}} :
      ops \in SeqsUpTo(DocOperations, MaxDocOperations)}
    \cup {JsObject([paths |-> JsArray(<<>>)])}

\* values that are no ParsedDocument: null, undefined, primitives, a
\* function, objects without paths, objects whose paths is no array (falsy
\* or truthy; the last holds operations all the same)
InvalidDocuments ==
    {JsNull, JsPrimitive("undefined", FALSE), JsPrimitive("string", TRUE),
     JsPrimitive("string", FALSE), JsPrimitive("number", TRUE),
     JsPrimitive("number", FALSE), JsPrimitive("boolean", TRUE),
     JsPrimitive("boolean", FALSE), JsPrimitive("function", TRUE),
     JsObject(<<>>),
     JsObject([schemas |-> AcyclicComponents]),
     JsObject([paths |-> JsNotArray(FALSE)]),
     JsObject([paths |-> JsNotArray(TRUE), schemas |-> AcyclicComponents])}

\* documents with a paths list whose elements are not what the loops
\* expect: a path without operations, an operation without parameters
MalformedDocuments ==
    {JsObject([paths |-> JsArray(ps)]) :
        ps \in {<<[path |-> "/a"]>>,
                <<[path |-> "/a", operations |-> <<BaseOperation>>]>>,
                <<[path |-> "/a",
                   operations |-> <<BaseOperation @@ [parameters |-> <<>>]>>],
                  [path |-> "/b"]>>}}

\* documents of two operations whose ids differ in case, in a character
\* outside the class of tool names, or not at all
TwinIds ==
    {<<"l", "i", "s", "t">>, <<"L", "i", "s", "t">>, <<"l", "i", "s", "t", "!">>,
     <<"g", "e", "t", " ", "p">>, <<"g", "e", "t", ".", "p">>,
     <<"g", "e", "t", "-", "p">>}

TwinDocuments ==
    {JsObject([paths |-> JsArray(
                  <<[path |-> "/a",
                     operations |->
                        <<[operation_id |-> a, method |-> <<"GET">>,
                           parameters |-> <<>>],
                          [operation_id |-> b, method |-> <<"POST">>,
                           parameters |-> <<>>]>>]>>)]) :
        a \in TwinIds, b \in TwinIds}

GenerateInputs ==
    ParsedDocuments \cup InvalidDocuments \cup MalformedDocuments
    \cup TwinDocuments

\* the inputs of a session: documents with tagged and untagged operations,
\* an empty one, one whose conversion does not end, and a value that is no
\* document
SessionDocuments ==
    {JsObject([paths |-> JsArray(<<[path |-> "/a", operations |-> ops]>>),
               schemas |-> AcyclicComponents @@ CyclicComponents]) :
        ops \in {<<>>} \cup {<<o>> : o \in DocOperations}}
    \cup {JsNull}

\* most invocations in a session
MaxInvocations == 3

(***************************************************************************)
(* Inputs of openapiParse                                                  *)
(***************************************************************************)
Link(name) == [link |-> name]

Str(chars) == [str |-> chars]

V303 == Str(<<"3", ".", "0", ".", "3">>)
V310 == Str(<<"3", ".", "1", ".", "0">>)
V20 == Str(<<"2", ".", "0">>)

\* values of the openapi field: strings with and without the prefix, the
\* empty string, numbers
OpenapiValues ==
    {V303, V310, V20, Str(<<"3", ".">>), Str(<<"3">>),
     Str(<<"3", "0", ".", "1">>), Str(<<>>), [num |-> 3], [num |-> 0]}

SwaggerValues == {V20, Str(<<>>)}

Info == [title |-> "Pets", version |-> "1.0.0"]

\* documents that differ in their version fields, and two without info
VersionDocuments ==
    {o @@ s @@ [info |-> Info] :
        o \in {<<>>} \cup {[openapi |-> v] : v \in OpenapiValues},
        s \in {<<>>} \cup {[swagger |-> v] : v \in SwaggerValues}}
    \cup {[openapi |-> V303], [openapi |-> V20]}

\* parameters of a source document: every location with every required
\* flag, one without a schema, one that is a reference
FlaggedParameters ==
    {[name |-> "p", in |-> loc, schema |-> StrSchema] @@ r :
        loc \in {"query", "header", "path", "cookie"},
        r \in {<<>>, [required |-> TRUE], [required |-> FALSE]}}

DocumentParameters ==
    FlaggedParameters
    \cup {[name |-> "id", in |-> "path"],
          [name |-> "owner", in |-> "query", required |-> TRUE,
           schema |-> Link("Owner"), description |-> "the owner"],
          "$ref" :> <<"#/components/parameters/", "Limit">>}

\* most parameters an operation of a document declares
MaxDocParams == 1

PetsById == <<"/", "p", "e", "t", "s", "/", "{", "i", "d", "}">>

\* documents that differ in the parameters of one operation and of its path
ParameterDocuments ==
    {[openapi |-> V303, info |-> Info,
      paths |-> <<[path |-> PetsById,
                   item |-> shared @@ [get |-> [parameters |-> own,
                                                  tags |-> <<"pets">>]]]>>,
      components |-> [schemas |-> [Owner |-> ObjName]]] :
        shared \in {<<>>,
                    [parameters |-> <<[name |-> "id", in |-> "path",
                                       required |-> FALSE]>>],
                    [parameters |-> <<"$ref" :> <<"#/components/parameters/",
                                                   "Limit">>>>]},
        own \in SeqsUpTo(DocumentParameters, MaxDocParams)}

\* component tables as dereferencing leaves them: acyclic, recursive through
\* properties, through items, through each other, and one whose recursive
\* reference was left in place
DereferencedTables ==
    {<<>>,
     [Pet |-> [type |-> "object",
               properties |-> [name |-> StrSchema, owner |-> Link("Owner")],
               required |-> <<"name">>],
      Owner |-> ObjName,
      PetList |-> [type |-> "array", items |-> Link("Pet")]],
     [Flags |-> [typeList |-> <<"string", "null">>, title |-> "Flags",
                 nullable |-> TRUE, example |-> "on",
                 additionalPropertiesBool |-> FALSE],
      Either |-> [oneOf |-> <<StrSchema, IntSchema>>,
                  additionalProperties |-> StrSchema]],
     [Node |-> [type |-> "object", properties |-> [child |-> Link("Node")]]],
     [Tree |-> [type |-> "array", items |-> Link("Tree")]],
     [Ping |-> [type |-> "object", properties |-> [pong |-> Link("Pong")]],
      Pong |-> [allOf |-> <<Link("Ping")>>]],
     [Node |-> [type |-> "object", properties |-> [child |-> RefTo("Node")]]]}

Pets == <<"/", "p", "e", "t", "s">>

\* paths whose operations carry a request body and responses
BodyPaths(table) ==
    {<<>>} \cup
    {<<[path |-> Pets,
        item |-> [post |-> [operationId |-> <<"a", "d", "d">>,
                            requestBody |->
                               [required |-> TRUE,
                                content |-> <<Json(Link(n))>>],
                            responses |->
                               <<[statusCode |-> "200",
                                  response |-> [description |-> "ok",
                                                content |-> <<Json(Link(n))>>]],
                                 [statusCode |-> "default",
                                  response |-> "$ref" :>
                                     <<"#/components/responses/", "Err">>]>>],
                  get |-> [summary |-> <<"List", " ", "pets">>]]]>> :
        n \in DOMAIN table}

SchemaDocuments ==
    UNION {{[openapi |-> v, info |-> Info, paths |-> ps,
             components |-> [schemas |-> table]] :
               v \in {V303, V310}, ps \in BodyPaths(table)} :
           table \in DereferencedTables}

\* documents that differ in the operationId of their operations: absent,
\* empty, given
IdentifiedDocuments ==
    {[openapi |-> V310, info |-> Info,
      paths |-> <<[path |-> path,
                   item |-> [get |-> g, delete |-> d]]>>] :
        path \in {PetsById, <<"/", "a", "-", "{", "B", "}", "/">>},
        g \in {<<>>, [operationId |-> <<>>],
               [operationId |-> <<"g", "e", "t", "P", "e", "t">>]},
        d \in {[summary |-> <<"Remove">>], [operationId |-> <<"r", "m">>]}}

\* a parameter named n
Named(n) == [name |-> n, in |-> "query", schema |-> StrSchema]

LimitRef == "$ref" :> <<"#/components/parameters/", "Limit">>

\* the orders in which a document lists the keys of a path item that has
\* three operations and parameters; keys records the order
KeyOrders ==
    {<<"get", "post", "trace", "parameters">>,
     <<"trace", "post", "get", "parameters">>,
     <<"post", "parameters", "trace", "get">>,
     <<"parameters", "trace", "get", "post">>}

\* documents that differ in the key order of a path item and in the order
\* of the parameters of the path and of its operations
OrderedDocuments ==
    {[openapi |-> V303, info |-> Info,
      paths |-> <<[path |-> Pets,
                   item |-> [keys |-> ks,
                             parameters |-> shared,
                             get |-> [parameters |-> own],
                             post |-> [operationId |-> <<"a", "d", "d">>],
                             trace |-> [parameters |-> <<Named("t")>>]]]>>] :
        ks \in KeyOrders,
        shared \in {<<Named("a"), Named("b")>>, <<Named("b"), Named("a")>>,
                    <<Named("b"), LimitRef, Named("a")>>},
        own \in {<<>>, <<Named("c"), Named("d")>>, <<Named("d"), Named("c")>>,
                 <<LimitRef, Named("d"), Named("c")>>}}

DereferencedDocuments ==
    VersionDocuments \cup ParameterDocuments \cup SchemaDocuments
    \cup IdentifiedDocuments \cup OrderedDocuments

\* the input texts, as tokens: " " is whitespace, "{" the opening brace
JsonText == <<"{", "\"openapi\": ...", "}">>
BrokenJsonText == <<"{", "invalid json", "}">>
ValidJsonTexts == {JsonText, <<" ">> \o JsonText, <<"[", "1", "]">>}
SpecTexts ==
    ValidJsonTexts
    \cup {BrokenJsonText, <<" ">> \o BrokenJsonText,
          <<"not valid url">>, <<"https://example.com/openapi.json">>}

\* JSON.parse(text) returns
JsonParses(text) == text \in ValidJsonTexts

\* what SwaggerParser.dereference does when it is called: it raises, or
\* returns a document
DereferenceOutcomes ==
    {[raised |-> "Error resolving $ref pointer"]}
    \cup {[spec |-> d] : d \in DereferencedDocuments}

(***************************************************************************)
(* Inputs of generateOperationId                                           *)
(***************************************************************************)
\* characters the path templates are built from: the slash, the braces,
\* letters of both cases, a digit and two other separators
PathAlphabet == {"/", "{", "}", "a", "B", "7", "_", "-"}

\* longest path template
MaxPathLen == 4

PathTemplates ==
    SeqsUpTo(PathAlphabet, MaxPathLen)
    \cup {PetsById,
          <<"/", "u", "/", "{", "u", "I", "d", "}", "/", "p", "/", "{", "p", "}">>}

\* the methods of parsePathOperations, one of them in upper case too
MethodInputs == Range(Methods) \cup {<<"G", "E", "T">>}

OperationIdInputs ==
    {[method |-> m, path |-> path] :
        m \in {<<"g", "e", "t">>, <<"G", "E", "T">>}, path \in PathTemplates}
    \cup {[method |-> m, path |-> path] :
            m \in MethodInputs,
            path \in {<<>>, <<"/">>, Pets, PetsById, <<"/", "{", "}", "a">>}}

(***************************************************************************)
(* Inputs of the name functions                                            *)
(***************************************************************************)
\* characters the inputs are built from: letters of both cases, a digit,
\* the two punctuation marks of the class and two characters outside it
NameAlphabet == {"a", "B", "7", "_", "-", "@", " "}

\* longest run of arbitrary characters before and after the padding
MaxAffixLen == 2

\* how far the padded inputs go past MaxToolNameLen
MaxOverrun == 2

\* lengths of the run of "a" in the middle of an input: short ones, and the
\* ones that put the affix around position MaxToolNameLen
PadLens == {0, 1} \cup
           ((MaxToolNameLen - MaxAffixLen - 1)..(MaxToolNameLen + MaxOverrun))

NameInputs ==
    {pre \o Repeat("a", k) \o suf :
        pre \in SeqsUpTo(NameAlphabet, 1),
        k \in PadLens,
        suf \in SeqsUpTo(NameAlphabet, MaxAffixLen)}

(***************************************************************************)
(* The HTTP transport (transport/stdio.ts)                                 *)
(*                                                                         *)
(* A JSON value that is an object is a function from its keys; null is     *)
(* [isNull |-> TRUE] and a number [number |-> n].  What JSON.stringify     *)
(* makes of a value v is [json |-> v].  A response is the status and the   *)
(* data given to sendJson.                                                 *)
(***************************************************************************)
Stringify(v) == [json |-> v]

\* const toolDefinitions: the names and the required arguments
toolDefinitions ==
    <<[name |-> "openapi_parse", required |-> <<"spec_url_or_json">>],
      [name |-> "generate_tool_schemas", required |-> <<"parsed_spec">>],
      [name |-> "generate_server_scaffold",
       required |-> <<"parsed_spec", "language">>]>>

\* the id of the answer: the request's, absent when the request has none
IdOf(request) == [k \in {"id"} \cap DOMAIN request |-> request[k]]

JsonRpcResult(request, result) ==
    [jsonrpc |-> "2.0", result |-> result] @@ IdOf(request)

JsonRpcError(request, code, message) ==
    [jsonrpc |-> "2.0", error |-> [code |-> code, message |-> message]]
    @@ IdOf(request)

TextContent(value) ==
    [content |-> <<[type |-> "text", text |-> Stringify(value)]>>]

\* params?.arguments: the empty set when params or arguments is missing
ArgumentsOf(request) ==
    IF "params" \in DOMAIN request /\ "arguments" \in DOMAIN request.params
    THEN {request.params.arguments} ELSE {}

\* args?.[key] when it is there
ArgumentOf(request, key) ==
    {a[key] : a \in {x \in ArgumentsOf(request) : key \in DOMAIN x}}

\* the tools/call case.  dereference is what SwaggerParser.dereference does
\* for this request if openapiParse calls it.
callTool(request, dereference) ==
    LET toolName == IF "params" \in DOMAIN request
                       /\ "name" \in DOMAIN request.params
                    THEN request.params.name ELSE "undefined"
        required(key) ==
            JsonRpcResult(request,
                TextContent(errorResponse("INVALID_INPUT",
                                          key \o " is required", <<>>)))
    IN CASE toolName = "openapi_parse" ->
              LET given == ArgumentOf(request, "spec_url_or_json")
              IN IF given = {} \/ given = {<<>>}
                 THEN required("spec_url_or_json")
                 ELSE LET specUrlOrJson == CHOOSE x \in given : TRUE
                      IN JsonRpcResult(request,
                            TextContent(openapiParse(
                                specUrlOrJson, JsonParses(specUrlOrJson),
                                dereference).ret))
         [] toolName = "generate_tool_schemas" ->
              LET given == ArgumentOf(request, "parsed_spec")
              IN IF given = {} \/ \E x \in given : ~Truthy(x)
                 THEN required("parsed_spec")
                 ELSE JsonRpcResult(request,
                         TextContent(generateToolSchemas(
                                        CHOOSE x \in given : TRUE)))
         [] toolName = "generate_server_scaffold" ->
              \* destructuring args that is undefined throws; the requests
              \* of this model give no language, so the scaffold generator
              \* is never reached
              IF ArgumentsOf(request) = {}
              THEN JsonRpcError(request, -32603,
                     "Internal error: Cannot destructure property "
                     \o "'parsed_spec' of 'args' as it is undefined.")
              ELSE LET given == ArgumentOf(request, "parsed_spec")
                   IN IF given = {} \/ \E x \in given : ~Truthy(x)
                      THEN required("parsed_spec")
                      ELSE JsonRpcResult(request,
                              TextContent(errorResponse(
                                 "INVALID_INPUT",
                                 "language must be \"typescript\" or \"python\"",
                                 <<>>)))
         [] OTHER ->
              JsonRpcError(request, -32601, "Unknown tool: " \o toolName)

handleJsonRpcRequest(request, dereference) ==
    LET method == IF "method" \in DOMAIN request THEN request.method
                  ELSE "undefined"
    IN CASE method = "initialize" ->
              JsonRpcResult(request,
                 [protocolVersion |-> "2024-11-05",
                  capabilities |-> [tools |-> <<>>],
                  serverInfo |-> [name |-> "openapi-generate",
                                  version |-> "1.0.0"]])
         [] method = "tools/list" ->
              JsonRpcResult(request, [tools |-> toolDefinitions])
         [] method = "tools/call" -> callTool(request, dereference)
         [] OTHER ->
              JsonRpcError(request, -32601, "Method not found: " \o method)

\* handleJsonRpcRequest waits for openapiParse before it answers
AwaitsOpenapiParse(request) ==
    /\ "method" \in DOMAIN request /\ request.method = "tools/call"
    /\ "params" \in DOMAIN request /\ "name" \in DOMAIN request.params
    /\ request.params.name = "openapi_parse"
    /\ ArgumentOf(request, "spec_url_or_json") \notin {{}, {<<>>}}

sendJson(statusCode, data) == [status |-> statusCode, body |-> data]

\* !request.jsonrpc || request.jsonrpc !== '2.0', on a value that is not null
InvalidVersion(request) ==
    \/ "jsonrpc" \notin DOMAIN request
    \/ request.jsonrpc # "2.0"

\* request.id || 0
IdOrZero(request) ==
    IF "id" \in DOMAIN request /\ request.id # 0 THEN request.id ELSE 0

\* handleMcpRequest from the body on: what is sent, and the handlers that
\* ran.  parsed is the set JSON.parse gives: empty when it throws.
handleMcpBody(parsed, dereference) ==
    IF parsed = {}
    THEN [response |-> sendJson(500, [ok |-> FALSE,
                                      error |-> "Unexpected token"]),
          ran |-> <<>>]
    ELSE LET request == CHOOSE v \in parsed : TRUE
         IN IF "isNull" \in DOMAIN request
            THEN [response |->
                     sendJson(500, [ok |-> FALSE,
                                    error |-> "Cannot read properties of null "
                                              \o "(reading 'jsonrpc')"]),
                  ran |-> <<>>]
            ELSE IF InvalidVersion(request)
            THEN [response |->
                     sendJson(400,
                        [jsonrpc |-> "2.0",
                         id |-> IdOrZero(request),
                         error |-> [code |-> -32600,
                                    message |-> "Invalid Request: missing or "
                                                \o "invalid jsonrpc version"]]),
                  ran |-> <<>>]
            ELSE [response |->
                     sendJson(200, handleJsonRpcRequest(request, dereference)),
                  ran |-> <<"handleJsonRpcRequest">>]

handleNotFound == sendJson(404, [error |-> "Not found"])

handleMethodNotAllowed == sendJson(405, [error |-> "Method not allowed"])

handleHealthCheck ==
    sendJson(200, [status |-> "ok", server |-> "openapi-generate",
                   version |-> "1.0.0", timestamp |-> RetrievedAt])

handleInfo ==
    sendJson(200, [name |-> "openapi-generate", version |-> "1.0.0",
                   capabilities |-> [tools |-> TRUE]])

\* the 'request' listener for everything but POST /mcp, which reads a body
routeWithoutBody(method, path) ==
    CASE path = "/mcp" -> handleMethodNotAllowed
      [] path = "/health" ->
            IF method = "GET" THEN handleHealthCheck ELSE handleMethodNotAllowed
      [] path = "/info" ->
            IF method = "GET" THEN handleInfo ELSE handleMethodNotAllowed
      [] OTHER -> handleNotFound

\* a plausible slip: one chunk array for every request
chunksShared(r) == 0

\* const chunks = [] in readBody: an array of the call for request r
chunksOf(r) == r

(***************************************************************************)
(* Inputs of the HTTP transport                                            *)
(***************************************************************************)
Rpc(id, method) == [jsonrpc |-> "2.0", id |-> id, method |-> method]

CallOf(id, name) == Rpc(id, "tools/call") @@ [params |-> [name |-> name]]

CallWith(id, name, arguments) ==
    Rpc(id, "tools/call")
    @@ [params |-> [name |-> name, arguments |-> arguments]]

SmallDocument ==
    JsObject([paths |-> JsArray(<<[path |-> "/a",
                                   operations |-> <<BaseOperation
                                      @@ [parameters |-> <<ParamId>>]>>]>>)])

\* the bodies: the chunks they arrive in and the value JSON.parse gives for
\* their concatenation (none for the last)
Bodies ==
    {[chunks |-> <<"{\"jsonrpc\":\"2.0\",\"id\":1,\"method\":\"initialize\"}">>,
      parsed |-> {Rpc(1, "initialize")}],
     [chunks |-> <<"{\"jsonrpc\":\"2.0\",\"id\":2,", "\"method\":\"tools/list\"}">>,
      parsed |-> {Rpc(2, "tools/list")}],
     [chunks |-> <<"{\"jsonrpc\":\"2.0\",\"method\":\"tools/list\"}">>,
      parsed |-> {[jsonrpc |-> "2.0", method |-> "tools/list"]}],
     [chunks |-> <<"{\"jsonrpc\":\"2.0\",\"id\":3,\"method\":\"unknown/method\"}">>,
      parsed |-> {Rpc(3, "unknown/method")}],
     [chunks |-> <<"{\"jsonrpc\":\"1.0\",\"id\":1,\"method\":\"tools/list\"}">>,
      parsed |-> {[jsonrpc |-> "1.0", id |-> 1, method |-> "tools/list"]}],
     [chunks |-> <<"{\"method\":\"tools/list\"}">>,
      parsed |-> {[method |-> "tools/list"]}],
     [chunks |-> <<"null">>, parsed |-> {[isNull |-> TRUE]}],
     [chunks |-> <<"5">>, parsed |-> {[number |-> 5]}],
     [chunks |-> <<"{\"jsonrpc\":\"2.0\",\"id\":4,\"method\":\"tools/call\",",
                   "\"params\":{\"name\":\"generate_tool_schemas\",...}}">>,
      parsed |-> {CallWith(4, "generate_tool_schemas",
                           [parsed_spec |-> SmallDocument])}],
     [chunks |-> <<"{...\"params\":{\"name\":\"generate_tool_schemas\"}}">>,
      parsed |-> {CallOf(5, "generate_tool_schemas")}],
     [chunks |-> <<"{...\"params\":{\"name\":\"openapi_parse\",...}}">>,
      parsed |-> {CallWith(6, "openapi_parse",
                           [spec_url_or_json |-> BrokenJsonText])}],
     [chunks |-> <<"{...\"params\":{\"name\":\"nope\"}}">>,
      parsed |-> {CallOf(7, "nope")}],
     [chunks |-> <<"{...\"params\":{\"name\":\"generate_server_scaffold\"}}">>,
      parsed |-> {CallOf(8, "generate_server_scaffold")}],
     [chunks |-> <<"not json">>, parsed |-> {}]}

\* JSON.parse(body): the set is empty when it throws
JsonParse(body) ==
    UNION {b.parsed : b \in {x \in Bodies : Join(x.chunks) = body}}

\* the requests: POST /mcp with every body, and requests without a body
HttpRequests ==
    {[method |-> "POST", path |-> "/mcp", chunks |-> b.chunks] : b \in Bodies}
    \cup {[method |-> m, path |-> path, chunks |-> <<>>] :
            m \in {"GET"}, path \in {"/mcp", "/health", "/unknown"}}
    \cup {[method |-> "POST", path |-> "/info", chunks |-> <<>>]}

\* what the dereferencer does for the requests of this model
HttpDereference == [raised |-> "Error resolving $ref pointer"]

\* most requests the server has accepted
MaxRequests == 2

(***************************************************************************)
(* The state machine                                                       *)
(***************************************************************************)
Init ==
    /\ pc = "ready"
    /\ fn = "none"
    /\ arg = <<>>
    /\ ret = <<>>
    /\ steps = <<>>
    /\ invocations = <<>>
    /\ conns = <<>>
    /\ buffers = <<>>
    /\ heap = <<>>

\* the caller takes the result; the next call starts from nothing
Return ==
    /\ pc = "done"
    /\ pc' = "ready"
    /\ UNCHANGED <<invocations, conns, buffers>>
    /\ heap' = <<>>
    /\ fn' = "none"
    /\ arg' = <<>>
    /\ ret' = <<>>
    /\ steps' = <<>>

CallSanitizeToolName ==
    /\ pc = "ready"
    /\ \E name \in NameInputs :
          /\ arg' = name
          /\ ret' = sanitizeToolName(name)
    /\ fn' = "sanitizeToolName"
    /\ steps' = <<>>
    /\ pc' = "done"
    /\ UNCHANGED <<invocations, conns, buffers, heap>>

NextNames == CallSanitizeToolName \/ Return

CallConvertSchemaToJSONSchema ==
    /\ pc = "ready"
    /\ \E schema \in SchemaInputs, allSchemas \in ComponentTables :
          /\ arg' = [schema |-> schema, allSchemas |-> allSchemas]
          /\ ret' = callConvertSchemaToJSONSchema(schema, allSchemas)
    /\ fn' = "convertSchemaToJSONSchema"
    /\ steps' = <<>>
    /\ pc' = "done"
    /\ UNCHANGED <<invocations, conns, buffers, heap>>

CallOperationToTool ==
    /\ pc = "ready"
    /\ \E operation \in OperationInputs, schemas \in OperationTables :
          /\ arg' = [operation |-> operation, schemas |-> schemas]
          /\ ret' = callOperationToTool(operation, schemas)
    /\ fn' = "operationToTool"
    /\ steps' = <<>>
    /\ pc' = "done"
    /\ UNCHANGED <<invocations, conns, buffers, heap>>

CallGenerateToolSchemas ==
    /\ pc = "ready"
    /\ \E parsedSpec \in GenerateInputs :
          /\ arg' = parsedSpec
          /\ ret' = generateToolSchemas(parsedSpec)
          /\ steps' = generateToolSchemasCalls(parsedSpec)
          /\ heap' = generateToolSchemasLeaves(parsedSpec)
    /\ fn' = "generateToolSchemas"
    /\ pc' = "done"
    /\ UNCHANGED <<invocations, conns, buffers>>

CallOpenapiParse ==
    /\ pc = "ready"
    /\ \E specUrlOrJson \in SpecTexts, dereference \in DereferenceOutcomes :
          LET call == openapiParse(specUrlOrJson, JsonParses(specUrlOrJson),
                                   dereference)
          IN /\ arg' = [specUrlOrJson |-> specUrlOrJson,
                        jsonParses |-> JsonParses(specUrlOrJson),
                        dereference |-> dereference]
             /\ ret' = call.ret
             /\ steps' = call.steps
    /\ fn' = "openapiParse"
    /\ pc' = "done"
    /\ UNCHANGED <<invocations, conns, buffers, heap>>

NextSchemas == CallConvertSchemaToJSONSchema \/ Return

NextTools == CallOperationToTool \/ CallGenerateToolSchemas \/ Return

SpecNames == Init /\ [][NextNames]_vars

SpecSchemas == Init /\ [][NextSchemas]_vars

SpecTools == Init /\ [][NextTools]_vars

CallGenerateOperationId ==
    /\ pc = "ready"
    /\ \E input \in OperationIdInputs :
          /\ arg' = input
          /\ ret' = generateOperationId(input.method, input.path)
    /\ fn' = "generateOperationId"
    /\ steps' = <<>>
    /\ pc' = "done"
    /\ UNCHANGED <<invocations, conns, buffers, heap>>

NextParse == CallOpenapiParse \/ CallGenerateOperationId \/ Return

SpecParse == Init /\ [][NextParse]_vars

\* one invocation of a session: the same call, remembered with its result
InvokeGenerateToolSchemas ==
    /\ pc = "ready"
    /\ Len(invocations) < MaxInvocations
    /\ \E parsedSpec \in SessionDocuments :
          /\ arg' = parsedSpec
          /\ ret' = generateToolSchemas(parsedSpec)
          /\ steps' = generateToolSchemasCalls(parsedSpec)
          /\ invocations' = Append(invocations,
                                   [arg |-> parsedSpec,
                                    ret |-> generateToolSchemas(parsedSpec)])
    /\ fn' = "generateToolSchemas"
    /\ pc' = "done"
    /\ UNCHANGED <<conns, buffers, heap>>

NextSessions == InvokeGenerateToolSchemas \/ Return

SpecSessions == Init /\ [][NextSessions]_vars

\* both public entry points
NextEntryPoints == CallOpenapiParse \/ CallGenerateToolSchemas \/ Return

SpecEntryPoints == Init /\ [][NextEntryPoints]_vars

\* The HTTP server.  A connection is a request the 'request' listener has
\* been called for; buffers holds the chunk arrays of readBody.
NoHttp == UNCHANGED <<pc, fn, arg, ret, steps, invocations, heap>>

\* the 'request' listener: routes, and for POST /mcp starts readBody
Accept(req) ==
    /\ Len(conns) < MaxRequests
    /\ LET r == Len(conns) + 1
       IN IF req.path = "/mcp" /\ req.method = "POST"
          THEN /\ conns' = Append(conns,
                              [request |-> req, phase |-> "reading",
                               received |-> 0, body |-> "",
                               responses |-> <<>>, ran |-> <<>>])
               /\ buffers' = (chunksOf(r) :> <<>>) @@ buffers
          ELSE /\ conns' = Append(conns,
                              [request |-> req, phase |-> "closed",
                               received |-> 0, body |-> "",
                               responses |->
                                  <<routeWithoutBody(req.method, req.path)>>,
                               ran |-> <<>>])
               /\ UNCHANGED buffers
    /\ NoHttp

\* the 'data' listener of readBody: chunks.push(chunk)
Data(r) ==
    /\ conns[r].phase = "reading"
    /\ conns[r].received < Len(conns[r].request.chunks)
    /\ buffers' = [buffers EXCEPT ![chunksOf(r)] =
                      Append(@, conns[r].request.chunks[conns[r].received + 1])]
    /\ conns' = [conns EXCEPT ![r].received = @ + 1]
    /\ NoHttp

\* the 'end' listener of readBody and handleMcpRequest up to its answer or to
\* the await of openapiParse
End(r) ==
    /\ conns[r].phase = "reading"
    /\ conns[r].received = Len(conns[r].request.chunks)
    /\ LET body == Join(buffers[chunksOf(r)])
           parsed == JsonParse(body)
           handled == handleMcpBody(parsed, HttpDereference)
       IN IF \E request \in parsed :
                "isNull" \notin DOMAIN request /\ ~InvalidVersion(request)
                /\ AwaitsOpenapiParse(request)
          THEN conns' = [conns EXCEPT ![r].phase = "awaiting",
                                      ![r].body = body,
                                      ![r].ran = handled.ran]
          ELSE conns' = [conns EXCEPT ![r].phase = "closed",
                                      ![r].body = body,
                                      ![r].ran = handled.ran,
                                      ![r].responses =
                                          Append(@, handled.response)]
    /\ UNCHANGED buffers
    /\ NoHttp

\* openapiParse has settled: handleJsonRpcRequest returns and the answer is
\* sent
Resume(r) ==
    /\ conns[r].phase = "awaiting"
    /\ conns' = [conns EXCEPT ![r].phase = "closed",
                              ![r].responses =
                                  Append(@, handleMcpBody(
                                               JsonParse(conns[r].body),
                                               HttpDereference).response)]
    /\ UNCHANGED buffers
    /\ NoHttp

AcceptAny == \E req \in HttpRequests : Accept(req)

DataAny == \E r \in DOMAIN conns : Data(r)

EndAny == \E r \in DOMAIN conns : End(r)

ResumeAny == \E r \in DOMAIN conns : Resume(r)

NextHttp == AcceptAny \/ DataAny \/ EndAny \/ ResumeAny

SpecHttp == Init /\ [][NextHttp]_vars

(***************************************************************************)
(* Claims about sanitizeToolName                                           *)
(***************************************************************************)
\* C2: sanitizeToolName is idempotent for every input, inputs longer than
\* 64 characters included: sanitizing its result returns the result.
C2_Idempotent ==
    (pc = "done" /\ fn = "sanitizeToolName") => sanitizeToolName(ret) = ret

\* C3: the result of sanitizeToolName holds only characters of [a-z0-9_-],
\* is at most 64 long, does not begin or end with "_" and has no "__".
C3_WellFormed ==
    (pc = "done" /\ fn = "sanitizeToolName") =>
        /\ Range(ret) \subseteq (Range(LowerCase) \cup Digits \cup {"_", "-"})
        /\ Len(ret) <= 64
        /\ (Len(ret) > 0 => ret[1] # "_" /\ ret[Len(ret)] # "_")
        /\ \A i \in 1..(Len(ret) - 1) : ~(ret[i] = "_" /\ ret[i+1] = "_")

(***************************************************************************)
(* Claims about convertSchemaToJSONSchema                                  *)
(***************************************************************************)
\* every schema at a schema position directly below s
SubSchemas(s) ==
    (IF "properties" \in DOMAIN s THEN Range2(s.properties) ELSE {})
    \cup (IF "items" \in DOMAIN s THEN {s.items} ELSE {})
    \cup (IF "additionalProperties" \in DOMAIN s
          THEN {s.additionalProperties} ELSE {})
    \cup UNION {IF k \in DOMAIN s THEN Range(s[k]) ELSE {} :
                   k \in {"oneOf", "anyOf", "allOf"}}

\* no "$ref" key in node, at any depth
RECURSIVE NoRefKey(_)
NoRefKey(node) ==
    /\ "$ref" \notin DOMAIN node
    /\ \A sub \in SubSchemas(node) : NoRefKey(sub)

\* the component names s mentions, at any depth
RECURSIVE MentionedNames(_)
MentionedNames(s) ==
    (IF HasRef(s) THEN {RefName(s)} ELSE {})
    \cup UNION {MentionedNames(sub) : sub \in SubSchemas(s)}

\* the names reachable from the names in from, in at most n steps
RECURSIVE ReachableNames(_, _, _)
ReachableNames(from, table, n) ==
    IF n = 0 THEN from
    ELSE ReachableNames(
            from \cup UNION {MentionedNames(table[m]) :
                                m \in from \cap DOMAIN table},
            table, n - 1)

\* no component of the table reaches itself through references
AcyclicTable(table) ==
    \A m \in DOMAIN table :
        m \notin ReachableNames(MentionedNames(table[m]), table,
                                Cardinality(DOMAIN table))

ConvertDone == pc = "done" /\ fn = "convertSchemaToJSONSchema"

ConvertedMember(i) ==
    convertSchemaToJSONSchema(arg.schema.allOf[i], arg.allSchemas)

MemberProperties(i) ==
    IF "properties" \in DOMAIN ConvertedMember(i)
    THEN ConvertedMember(i).properties ELSE <<>>

MemberRequired(i) ==
    IF "required" \in DOMAIN ConvertedMember(i)
    THEN ConvertedMember(i).required ELSE <<>>

\* C5: a schema with an allOf list converts to a node of type "object" whose
\* properties are the union of the converted members' properties, the last
\* member that has a name deciding its schema, and whose required list is
\* the members' required lists one after the other, duplicates kept.
C5_AllOfMerged ==
    (ConvertDone /\ "allOf" \in DOMAIN arg.schema /\ "returned" \in DOMAIN ret)
      =>
        LET n == Len(arg.schema.allOf)
            node == ret.returned
        IN /\ node.type = "object"
           /\ DOMAIN node.properties =
                 UNION {DOMAIN MemberProperties(i) : i \in 1..n}
           /\ \A i \in 1..n : \A key \in DOMAIN MemberProperties(i) :
                 (\A j \in (i+1)..n : key \notin DOMAIN MemberProperties(j))
                    => node.properties[key] = MemberProperties(i)[key]
           /\ node.required = Flatten([i \in 1..n |-> MemberRequired(i)])

\* two members share "name" and both require it
C5_Witness ==
    /\ ConvertDone
    /\ arg.schema = [allOf |-> <<ObjName, ObjNameTag>>]
    /\ arg.allSchemas = AcyclicComponents
    /\ ret = Returned([type |-> "object",
                       properties |-> [name |-> IntSchema,
                                       tag |-> AcyclicComponents.Owner],
                       required |-> <<"name", "name", "tag">>])

(***************************************************************************)
(* Claims about operationToTool and generateToolSchemas                    *)
(***************************************************************************)
GenerateDone == pc = "done" /\ fn = "generateToolSchemas"

\* the value has the shape of a ParsedDocument as far as the generator
\* reads it: an object with a paths list of paths with operations, each
\* with a parameter list
IsParsedDocument(v) ==
    /\ v.typeof = "object" /\ ~v.isNull
    /\ "paths" \in DOMAIN v.object /\ v.object.paths.isArray
    /\ \A i \in 1..Len(v.object.paths.elements) :
          LET path == v.object.paths.elements[i]
          IN /\ "operations" \in DOMAIN path
             /\ \A j \in 1..Len(path.operations) :
                   "parameters" \in DOMAIN path.operations[j]

\* the operations of the document generateToolSchemas was called on
ArgOperations == AllOperations(arg.object.paths.elements)
ArgSchemas ==
    IF "schemas" \in DOMAIN arg.object THEN arg.object.schemas ELSE <<>>

\* C1: for every ParsedDocument whose paths hold N operations in total,
\* generateToolSchemas succeeds with exactly N tools and total_tools = N,
\* every tool's inputSchema.type is "object", and the i-th tool is the one
\* built from the i-th operation, in path order then per-path order.
C1_OneToolPerOperation ==
    (GenerateDone /\ IsParsedDocument(arg)) =>
        /\ ret.ok
        /\ Len(ret.data.tools) = Len(ArgOperations)
        /\ ret.data.summary.total_tools = Len(ArgOperations)
        /\ \A i \in 1..Len(ArgOperations) :
              /\ ret.data.tools[i].inputSchema.type = "object"
              /\ ret.data.tools[i] =
                    operationToTool(ArgOperations[i], ArgSchemas)

ToolDone == pc = "done" /\ fn = "operationToTool"

\* the body schema of the operation operationToTool was called on, converted
ArgBodySchema ==
    convertSchemaToJSONSchema(
        CHOOSE s \in SelectedBodySchema(arg.operation) : TRUE, arg.schemas)

Flattenable(node) ==
    /\ "type" \in DOMAIN node
    /\ node.type = "object"
    /\ "properties" \in DOMAIN node

C6_WitnessArray ==
    /\ ToolDone
    /\ arg.operation.parameters = <<>>
    /\ "request_body" \in DOMAIN arg.operation
    /\ arg.operation.request_body =
          [required |-> TRUE, content |-> <<Json(ArrayOfStr)>>]
    /\ ret.returned.inputSchema =
          [type |-> "object", properties |-> [body |-> ArrayOfStr],
           required |-> <<"body">>]

(***************************************************************************)
(* Claims about openapiParse                                               *)
(***************************************************************************)
ParseDone == pc = "done" /\ fn = "openapiParse"

\* the document dereferencing returned to the call
ArgSpec == arg.dereference.spec

\* the call got a document from the dereferencer
GotDocument ==
    /\ ParseDone
    /\ "dereference" \in Range(steps)
    /\ "spec" \in DOMAIN arg.dereference

ErrorCode == IF ret.ok THEN "none" ELSE ret.error.code

\* the parameters the document gives the operation under key method of the
\* i-th path: those of the path, then its own, the references left out
SourceParameters(i, method) ==
    LET item == ArgSpec.paths[i].item
        all == (IF "parameters" \in DOMAIN item THEN item.parameters ELSE <<>>)
               \o (IF "parameters" \in DOMAIN item[method]
                   THEN item[method].parameters ELSE <<>>)
    IN SelectSeq(all, LAMBDA param : "$ref" \notin DOMAIN param)

\* the parsed operations with the source parameters of each
ParsedWithSource ==
    UNION {{[parsed |-> ret.data.paths[i].operations[j].parameters,
             source |-> SourceParameters(
                           i, Join(toLowerCase(
                                     ret.data.paths[i].operations[j].method)))] :
               j \in 1..Len(ret.data.paths[i].operations)} :
           i \in 1..Len(ret.data.paths)}

\* those pairs when the call is a successful parse, none otherwise
ParsedPairs == IF ParseDone /\ ret.ok THEN ParsedWithSource ELSE {}

\* C7: every ParsedParameter is the parse of the document's parameter at its
\* place; one whose location is "path" has required = true whatever flag
\* (true, false, absent) the document gives it, and one with another
\* location has required = true only if the document marks it required.
C7_PathParameterRequired ==
    \A pair \in ParsedPairs :
        /\ Len(pair.parsed) = Len(pair.source)
        /\ \A k \in 1..Len(pair.parsed) :
              LET p == pair.parsed[k]
                  src == pair.source[k]
              IN /\ p.name = src.name /\ p.in = src.in
                 /\ p.in = "path" => p.required = TRUE
                 /\ (p.in # "path" /\ p.required) =>
                       ("required" \in DOMAIN src /\ src.required)

\* a path parameter the document marks required: false, parsed as required
C7_Witness ==
    \E pair \in ParsedPairs : \E k \in 1..Len(pair.parsed) :
        /\ Len(pair.parsed) = Len(pair.source)
        /\ pair.parsed[k].in = "path"
        /\ "required" \in DOMAIN pair.source[k]
        /\ ~pair.source[k].required
        /\ pair.parsed[k].required

\* the openapi field is a string starting with "3."
OpenapiStartsWith3Dot(spec) ==
    /\ "openapi" \in DOMAIN spec
    /\ "str" \in DOMAIN spec.openapi
    /\ Len(spec.openapi.str) >= 2
    /\ SubSeq(spec.openapi.str, 1, 2) = <<"3", ".">>

\* a version field that holds a value: not absent, not "" and not 0
HoldsVersion(spec, key) ==
    /\ key \in DOMAIN spec
    /\ spec[key] \notin {Str(<<>>), [num |-> 0]}

ReportedVersion(spec) ==
    IF HoldsVersion(spec, "openapi") THEN spec.openapi
    ELSE IF HoldsVersion(spec, "swagger") THEN spec.swagger
    ELSE Str(<<"unknown">>)

\* C8: a dereferenced document is accepted (parseSpec runs on it) if and
\* only if its openapi field is a string starting with "3."; every other
\* document is rejected with INVALID_INPUT whose details report its openapi
\* value, else its swagger value, else "unknown", and parseSpec is not run.
C8_VersionGate ==
    GotDocument =>
        LET accepted == "parseSpec" \in Range(steps)
        IN /\ accepted <=> OpenapiStartsWith3Dot(ArgSpec)
           /\ ~OpenapiStartsWith3Dot(ArgSpec) =>
                 /\ ErrorCode = "INVALID_INPUT"
                 /\ ret.error.details.provided_version = ReportedVersion(ArgSpec)

\* a document without openapi and with swagger "2.0" is rejected, and the
\* details report "2.0"
C8_Witness ==
    /\ GotDocument
    /\ "openapi" \notin DOMAIN ArgSpec
    /\ "swagger" \in DOMAIN ArgSpec /\ ArgSpec.swagger = V20
    /\ ErrorCode = "INVALID_INPUT"
    /\ ret.error.details.provided_version = V20
    /\ "parseSpec" \notin Range(steps)

\* the first token of the text that is not whitespace is the brace
BeginsWithBrace(text) ==
    \E i \in 1..Len(text) :
        /\ text[i] = "{"
        /\ \A j \in 1..(i - 1) : text[j] = " "

\* C9 as stated: every input text that is not syntactically valid JSON fails
\* with PARSE_ERROR, whether or not it begins with "{".
C9_InvalidJsonIsParseError ==
    (ParseDone /\ ~arg.jsonParses) => ErrorCode = "PARSE_ERROR"

\* C9, amended: every input text that begins with "{" after leading
\* whitespace and is not syntactically valid JSON fails with PARSE_ERROR; a
\* text that does not begin so is handed on as a URL and never fails with
\* PARSE_ERROR.
C9_BraceTextIsParseError ==
    ParseDone =>
        /\ (BeginsWithBrace(arg.specUrlOrJson) /\ ~arg.jsonParses) =>
              ErrorCode = "PARSE_ERROR"
        /\ ~BeginsWithBrace(arg.specUrlOrJson) => ErrorCode # "PARSE_ERROR"

\* invalid JSON behind leading whitespace fails with PARSE_ERROR
C9_Witness ==
    /\ ParseDone
    /\ arg.specUrlOrJson = <<" ">> \o BrokenJsonText
    /\ ~arg.jsonParses
    /\ ErrorCode = "PARSE_ERROR"

\* every link of the schema leads to a schema of the table
RECURSIVE LinksResolve(_, _)
LinksResolve(schema, table) ==
    IF IsLink(schema) THEN schema.link \in DOMAIN table
    ELSE /\ "properties" \in DOMAIN schema =>
               \A k \in DOMAIN schema.properties :
                   LinksResolve(schema.properties[k], table)
         /\ "items" \in DOMAIN schema => LinksResolve(schema.items, table)
         /\ \A k \in {"oneOf", "anyOf", "allOf"} \cap DOMAIN schema :
               \A i \in 1..Len(schema[k]) : LinksResolve(schema[k][i], table)
         /\ "additionalProperties" \in DOMAIN schema =>
               LinksResolve(schema.additionalProperties, table)

\* a valid OpenAPI 3.0 or 3.1 document, dereferenced: the version is one of
\* the two, info has title and version, no reference is left and every
\* schema position holds a schema
ValidDereferenced(spec) ==
    /\ "openapi" \in DOMAIN spec /\ spec.openapi \in {V303, V310}
    /\ "swagger" \notin DOMAIN spec
    /\ "info" \in DOMAIN spec /\ {"title", "version"} \subseteq DOMAIN spec.info
    /\ "paths" \in DOMAIN spec
    /\ \A s \in SchemasOfSpec(spec) :
          /\ LinksResolve(s, ComponentsOf(spec, "schemas"))
          /\ NoRefKey(s)

\* C10: for every valid OpenAPI 3.0 or 3.1 document given as JSON text,
\* recursive component schemas included, openapiParse returns success and
\* data.openapi_version is the document's openapi field.
C10_ValidDocumentParses ==
    (GotDocument /\ BeginsWithBrace(arg.specUrlOrJson) /\ arg.jsonParses
     /\ ValidDereferenced(ArgSpec)) =>
        /\ ret.ok
        /\ ret.data.openapi_version = ArgSpec.openapi

(***************************************************************************)
(* Claims about the preconditions of generateToolSchemas                   *)
(***************************************************************************)
\* the input is null or not an object, or its paths field is missing or is
\* not a list
InvalidInput(v) ==
    \/ v.typeof # "object"
    \/ v.isNull
    \/ "paths" \notin DOMAIN v.object
    \/ ~v.object.paths.isArray

\* C11: generateToolSchemas returns an INVALID_INPUT failure, and converts
\* no operation, when its input is null or not an object, or when the
\* input's paths field is missing or is not a list.
C11_InvalidInputRejected ==
    (GenerateDone /\ InvalidInput(arg)) =>
        /\ ~ret.ok
        /\ ret.error.code = "INVALID_INPUT"
        /\ steps = <<>>

\* an object whose paths is a truthy value that is no list is rejected
C11_Witness ==
    /\ GenerateDone
    /\ arg.typeof = "object" /\ ~arg.isNull
    /\ "paths" \in DOMAIN arg.object
    /\ ~arg.object.paths.isArray /\ arg.object.paths.truthy
    /\ ~ret.ok /\ ret.error.code = "INVALID_INPUT"
    /\ steps = <<>>

(***************************************************************************)
(* Claims about both entry points                                          *)
(***************************************************************************)
EntryPointDone == pc = "done" /\ fn \in {"openapiParse", "generateToolSchemas"}

\* the codes the core produces
CoreCodes == {"INVALID_INPUT", "UPSTREAM_ERROR", "PARSE_ERROR", "INTERNAL_ERROR"}

\* a success envelope or a failure envelope with one of the core's codes
IsEnvelope(v) ==
    /\ "ok" \in DOMAIN v
    /\ IF v.ok THEN {"data", "meta"} \subseteq DOMAIN v
       ELSE "error" \in DOMAIN v /\ v.error.code \in CoreCodes

\* the messages of the exceptions raised in the call outside the guarded
\* JSON.parse / dereference blocks: by parseSpec, or by the generator's loops
RaisedOutsideDereference ==
    IF fn = "openapiParse"
    THEN IF "parseSpec" \in Range(steps) THEN parseSpecThrows(ArgSpec) ELSE {}
    ELSE IF IsEnvelope(ret) /\ ~InvalidInput(arg)
    THEN generateThrows(arg.object.paths.elements, SchemasOf(arg.object))
    ELSE {}

\* C12: no exception escapes openapiParse or generateToolSchemas: each
\* returns a success envelope or a failure envelope whose code is
\* INVALID_INPUT, UPSTREAM_ERROR, PARSE_ERROR or INTERNAL_ERROR, and an
\* exception raised outside the two dereference blocks is reported as
\* INTERNAL_ERROR with the exception's message in details.
C12_NoExceptionEscapes ==
    EntryPointDone =>
        /\ "threw" \notin DOMAIN ret
        /\ IsEnvelope(ret)
        /\ RaisedOutsideDereference # {} =>
              /\ ~ret.ok
              /\ ret.error.code = "INTERNAL_ERROR"
              /\ "error" \in DOMAIN ret.error.details
              /\ ret.error.details.error \in RaisedOutsideDereference

\* iterating the operations of a path that has none raises a TypeError,
\* which comes back as INTERNAL_ERROR with its message
C12_Witness ==
    /\ GenerateDone
    /\ ~InvalidInput(arg)
    /\ \E i \in 1..Len(arg.object.paths.elements) :
          "operations" \notin DOMAIN arg.object.paths.elements[i]
    /\ ~ret.ok /\ ret.error.code = "INTERNAL_ERROR"
    /\ ret.error.details = [error |-> "path.operations is not iterable"]

(***************************************************************************)
(* Claims about generateOperationId                                        *)
(***************************************************************************)
\* the positions of the braces around the variables of s: a "}" closes the
\* first "{" after the "}" before it, if the two have something between them
VariableBraces(s) ==
    UNION {LET before == {k \in 1..(j - 1) : s[k] = "}"}
               from == IF before = {} THEN 1
                       ELSE 1 + CHOOSE k \in before : \A l \in before : l <= k
               opening == {i \in from..(j - 2) : s[i] = "{"}
           IN IF opening = {} THEN {}
              ELSE {j, CHOOSE i \in opening : \A l \in opening : i <= l} :
           j \in {k \in 1..Len(s) : s[k] = "}"}}

\* s without the positions in gone
Without(s, gone) ==
    LET F[i \in 0..Len(s)] ==
            IF i = 0 THEN <<>>
            ELSE IF i \in gone THEN F[i-1] ELSE Append(F[i-1], s[i])
    IN F[Len(s)]

\* the alphanumeric characters of s, with one "_" for what separates two of
\* them and nothing for what comes before the first and after the last
UnderscoreSeparated(s) ==
    LET F[i \in 0..Len(s)] ==
            IF i = 0 THEN <<>>
            ELSE IF s[i] \in AlphaNum THEN Append(F[i-1], s[i])
            ELSE IF /\ i > 1 /\ s[i-1] \in AlphaNum
                    /\ \E l \in (i + 1)..Len(s) : s[l] \in AlphaNum
            THEN Append(F[i-1], "_")
            ELSE F[i-1]
    IN F[Len(s)]

\* the rule in words: strip one leading slash, remove the braces around each
\* variable, one underscore per run of other characters, none at the ends,
\* "<method>_" in front, lower case
ExpectedOperationId(method, path) ==
    LET rest == IF path # <<>> /\ Head(path) = "/" THEN Tail(path) ELSE path
        bare == Without(rest, VariableBraces(rest))
    IN [i \in 1..(Len(method) + 1 + Len(UnderscoreSeparated(bare))) |->
           LowerChar((method \o <<"_">> \o UnderscoreSeparated(bare))[i])]

OperationIdDone == pc = "done" /\ fn = "generateOperationId"

\* the parsed operations of a successful parse, each with its path and the
\* operation of the document it was parsed from
ParsedOperations ==
    IF ParseDone /\ ret.ok
    THEN UNION {{[parsed |-> ret.data.paths[i].operations[j],
                  path |-> ArgSpec.paths[i].path,
                  source |-> ArgSpec.paths[i].item[
                                Join(toLowerCase(
                                   ret.data.paths[i].operations[j].method))]] :
                    j \in 1..Len(ret.data.paths[i].operations)} :
                i \in 1..Len(ret.data.paths)}
    ELSE {}

\* C13: generateOperationId(method, path) is the result of the rule in
\* words, it contains only [a-z0-9_], and the parser uses it as operation_id
\* exactly when the operation's operationId is absent or falsy.
C13_GeneratedOperationId ==
    /\ OperationIdDone =>
          /\ ret = ExpectedOperationId(arg.method, arg.path)
          /\ Range(ret) \subseteq Range(LowerCase) \cup Digits \cup {"_"}
    /\ \A o \in ParsedOperations :
          o.parsed.operation_id =
             IF "operationId" \in DOMAIN o.source /\ o.source.operationId # <<>>
             THEN o.source.operationId
             ELSE ExpectedOperationId(toLowerCase(o.parsed.method), o.path)

\* the braces of two variables go, the separators between become one "_"
C13_Witness ==
    /\ OperationIdDone
    /\ arg.path = <<"/", "u", "/", "{", "u", "I", "d", "}", "/", "p", "/",
                    "{", "p", "}">>
    /\ arg.method = <<"G", "E", "T">>
    /\ ret = <<"g", "e", "t", "_", "u", "_", "u", "i", "d", "_", "p", "_", "p">>

\* an operation whose operationId is the empty string gets the generated one
C13_WitnessParser ==
    \E o \in ParsedOperations :
        /\ "operationId" \in DOMAIN o.source /\ o.source.operationId = <<>>
        /\ o.parsed.operation_id = <<"g", "e", "t", "_", "p", "e", "t", "s",
                                     "_", "i", "d">>

(***************************************************************************)
(* Claims about sessions                                                   *)
(***************************************************************************)
\* what an invocation returned, the time of the answer aside
Answer(envelope) ==
    IF envelope.ok THEN [ok |-> TRUE, data |-> envelope.data]
    ELSE [ok |-> FALSE, error |-> envelope.error]

IsMcpPost(c) == c.request.path = "/mcp" /\ c.request.method = "POST"

\* the answer to the request of connection c when no other request is handled
AloneResponse(c) ==
    IF IsMcpPost(c)
    THEN handleMcpBody(JsonParse(Join(c.request.chunks)),
                       HttpDereference).response
    ELSE routeWithoutBody(c.request.method, c.request.path)

\* the value the client sent, when its body is JSON
SentBy(c) == JsonParse(Join(c.request.chunks))

CallsKnownTool(request) ==
    /\ "method" \in DOMAIN request /\ request.method = "tools/call"
    /\ "params" \in DOMAIN request /\ "arguments" \in DOMAIN request.params
    /\ request.params.name \in {"openapi_parse", "generate_tool_schemas"}

Succeeds(response) ==
    /\ response.status = 200
    /\ "result" \in DOMAIN response.body
    /\ "error" \notin DOMAIN response.body

\* C15: whatever the interleaving of the requests being handled, a request
\* that has been answered got one response, the one it gets when handled
\* alone; a tools/list and a tools/call with version "2.0" get HTTP 200 with
\* a result whether or not an initialize request came before (no request
\* carries a session identifier).
C15_Isolated ==
    \A r \in DOMAIN conns :
        conns[r].phase = "closed" =>
            /\ conns[r].responses = <<AloneResponse(conns[r])>>
            /\ \A request \in SentBy(conns[r]) :
                  ( /\ IsMcpPost(conns[r])
                    /\ "isNull" \notin DOMAIN request
                    /\ ~InvalidVersion(request)
                    /\ \/ request.method = "tools/list"
                       \/ CallsKnownTool(request) )
                  => Succeeds(conns[r].responses[1])

\* a tools/call was received, handled and answered between two chunks of a
\* tools/list, and no initialize request was made
C15_Witness ==
    /\ Len(conns) = 2
    /\ conns[1].phase = "reading" /\ conns[1].received = 1
    /\ SentBy(conns[1]) = {Rpc(2, "tools/list")}
    /\ conns[2].phase = "closed"
    /\ \E request \in SentBy(conns[2]) :
          CallsKnownTool(request) /\ Succeeds(conns[2].responses[1])

IsRpcError(response, status, code) ==
    /\ response.status = status
    /\ "error" \in DOMAIN response.body
    /\ "jsonrpc" \in DOMAIN response.body
    /\ response.body.error.code = code

KnownMethods == {"initialize", "tools/list", "tools/call"}

MethodOf(request) ==
    IF "isNull" \notin DOMAIN request /\ "method" \in DOMAIN request
    THEN request.method ELSE "undefined"

VersionOk(request) ==
    /\ "isNull" \notin DOMAIN request
    /\ "jsonrpc" \in DOMAIN request
    /\ request.jsonrpc = "2.0"

\* C16: a POST /mcp whose body is JSON is answered once: with HTTP 400 and
\* error -32600, no method handler having run, when the jsonrpc field is
\* missing or not "2.0"; otherwise with HTTP 200 and a result or, for a
\* method other than initialize, tools/list and tools/call, error -32601.
\* Another method on /mcp gets 405, an unknown path 404.
C16_OneResponse ==
    \A r \in DOMAIN conns :
        conns[r].phase = "closed" =>
            LET c == conns[r]
            IN /\ Len(c.responses) = 1
               /\ IsMcpPost(c) =>
                     \A request \in SentBy(c) :
                        IF ~VersionOk(request)
                        THEN /\ IsRpcError(c.responses[1], 400, -32600)
                             /\ c.ran = <<>>
                        ELSE \/ Succeeds(c.responses[1])
                             \/ /\ MethodOf(request) \notin KnownMethods
                                /\ IsRpcError(c.responses[1], 200, -32601)
               /\ (c.request.path = "/mcp" /\ c.request.method # "POST")
                     => c.responses[1].status = 405
               /\ c.request.path \notin {"/mcp", "/health", "/info"}
                     => c.responses[1].status = 404

(***************************************************************************)
(* Claims about parameters and body fields that share names                *)
(***************************************************************************)
ParameterNames(operation) ==
    {operation.parameters[i].name : i \in 1..Len(operation.parameters)}

\* operationToTool has returned for an operation whose body was flattened
FlattenedDone ==
    /\ ToolDone
    /\ "returned" \in DOMAIN ret
    /\ SelectedBodySchema(arg.operation) # {}
    /\ Flattenable(ArgBodySchema)

\* the key a body field is inserted under when no parameter and no body
\* field is named body_...
InsertedUnder(f) ==
    IF f \in ParameterNames(arg.operation) THEN "body_" \o f ELSE f

NoBodyPrefix(names) == names \cap {"body_id", "body_name"} = {}

DistinctNames(parameters) ==
    \A i, j \in 1..Len(parameters) :
        parameters[i].name = parameters[j].name => i = j

NoDuplicates(s) == \A i, j \in 1..Len(s) : s[i] = s[j] => i = j

\* C17: when a required body is flattened (the parameters having distinct
\* names), each name of the body's required list that is a body property
\* puts into the required list the key its property was inserted under (the
\* name itself, or body_<name> when a parameter has the name), and the
\* required list has no name twice.
C17_RequiredFollowsKey ==
    (/\ FlattenedDone
     /\ arg.operation.request_body.required
     /\ DistinctNames(arg.operation.parameters)
     /\ "required" \in DOMAIN ArgBodySchema
     /\ NoBodyPrefix(ParameterNames(arg.operation)
                     \cup DOMAIN ArgBodySchema.properties)) =>
        LET input == ret.returned.inputSchema
            body == ArgBodySchema
        IN /\ \A f \in Range(body.required) \cap DOMAIN body.properties :
                 InsertedUnder(f) \in Range(input.required)
           /\ NoDuplicates(input.required)

\* the node operationToTool makes of a parameter
ParameterNode(param, schemas) ==
    LET node == convertSchemaToJSONSchema(param.schema, schemas)
    IN IF TruthyString(param, "description")
       THEN ("description" :> param.description) @@ node
       ELSE node

\* C18: flattening a body never displaces a parameter: for every parameter
\* (of an operation whose parameters have distinct names) the property under
\* the parameter's name is the node converted from that parameter; a body
\* field with the name of a parameter is stored under body_<name>.
C18_ParametersKept ==
    (FlattenedDone /\ DistinctNames(arg.operation.parameters)) =>
        LET input == ret.returned.inputSchema
            body == ArgBodySchema
            parameters == arg.operation.parameters
        IN /\ \A i \in 1..Len(parameters) :
                 /\ parameters[i].name \in DOMAIN input.properties
                 /\ input.properties[parameters[i].name] =
                       ParameterNode(parameters[i], arg.schemas)
           /\ \A key \in DOMAIN body.properties \cap ParameterNames(arg.operation) :
                 /\ ("body_" \o key) \in DOMAIN input.properties
                 /\ NoBodyPrefix(ParameterNames(arg.operation)) =>
                       input.properties["body_" \o key] = body.properties[key]

\* C19: a body whose selected schema does not convert to an object with at
\* least one property adds exactly one property, "body", holding the
\* converted schema, with the request body's description when it has one;
\* "body" is in the required list exactly when the body is required.
C19_BodyWrapped ==
    (/\ ToolDone
     /\ "returned" \in DOMAIN ret
     /\ SelectedBodySchema(arg.operation) # {}
     /\ ~(Flattenable(ArgBodySchema) /\ ArgBodySchema.properties # <<>>)) =>
        LET input == ret.returned.inputSchema
            body == arg.operation.request_body
        IN /\ DOMAIN input.properties =
                 ParameterNames(arg.operation) \cup {"body"}
           /\ input.properties["body"] =
                 IF TruthyString(body, "description")
                 THEN ("description" :> body.description) @@ ArgBodySchema
                 ELSE ArgBodySchema
           /\ ("body" \in Range(input.required)) <=> body.required

(***************************************************************************)
(* Claims about allOf beside other keys                                    *)
(***************************************************************************)
SiblingKeys(schema) == DOMAIN schema \ {"allOf"}

\* C20: a schema that has an allOf list and other keys beside it (type,
\* description, properties, required, items, oneOf, anyOf,
\* additionalProperties) converts to the merge of the allOf members alone:
\* the node is the one the allOf list converts to without the other keys,
\* and it has no key but type, properties and required.
C20_SiblingsDropped ==
    (/\ ConvertDone
     /\ "returned" \in DOMAIN ret
     /\ ~HasRef(arg.schema)
     /\ "allOf" \in DOMAIN arg.schema
     /\ SiblingKeys(arg.schema) # {}) =>
        /\ ret.returned = convertSchemaToJSONSchema(
                              [allOf |-> arg.schema.allOf], arg.allSchemas)
        /\ DOMAIN ret.returned = {"type", "properties", "required"}
        /\ ret.returned.type = "object"

\* an allOf of one object beside items: the items are gone
C20_Witness ==
    /\ ConvertDone
    /\ arg.schema = [allOf |-> <<ObjName>>, items |-> StrSchema]
    /\ ret = Returned(ObjName)

(***************************************************************************)
(* Claims about the end of the recursion                                   *)
(***************************************************************************)
\* the schemas one call of convertSchemaToJSONSchema on a schema without
\* $ref calls itself on
Followed(schema) ==
    (IF "properties" \in DOMAIN schema THEN Range2(schema.properties) ELSE {})
    \cup (IF "items" \in DOMAIN schema THEN {schema.items} ELSE {})
    \cup (IF "oneOf" \in DOMAIN schema THEN Range(schema.oneOf) ELSE {})
    \cup (IF "anyOf" \in DOMAIN schema THEN Range(schema.anyOf) ELSE {})
    \cup (IF "allOf" \in DOMAIN schema THEN Range(schema.allOf)
          ELSE IF "additionalProperties" \in DOMAIN schema
          THEN {schema.additionalProperties} ELSE {})

\* the component names a schema refers to, at any depth of the schema itself
RECURSIVE NamesIn(_)
NamesIn(schema) ==
    IF HasRef(schema) THEN {RefName(schema)}
    ELSE UNION {NamesIn(s) : s \in Followed(schema)}

\* the names reached from a set of names in at most k reference steps
RECURSIVE ReachedFrom(_, _, _)
ReachedFrom(names, table, k) ==
    IF k = 0 THEN names
    ELSE ReachedFrom(
            names \cup UNION {NamesIn(table[n]) : n \in names \cap DOMAIN table},
            table, k - 1)

\* a name of the table that reaches itself through $ref
ReachesItself(n, table) ==
    /\ n \in DOMAIN table
    /\ n \in ReachedFrom(NamesIn(table[n]), table, Cardinality(DOMAIN table))

\* the chain of references below a schema comes to a name that reaches itself
ChainIsCyclic(schema, table) ==
    \E n \in ReachedFrom(NamesIn(schema), table, Cardinality(DOMAIN table)) :
        ReachesItself(n, table)

\* C21: convertSchemaToJSONSchema returns a node for every schema whose
\* chain of component references is acyclic; when the chain comes to a name
\* that reaches itself through $ref (directly or through properties, items
\* or composition members) the recursion has nothing that ends it, and the
\* call ends in the engine's RangeError.
C21_EndsIffAcyclic ==
    ConvertDone =>
        IF ChainIsCyclic(arg.schema, arg.allSchemas)
        THEN ret = Threw("RangeError")
        ELSE "returned" \in DOMAIN ret /\ DOMAIN ret.returned # {"$ref"}

\* a chain through items and allOf that comes back to its start ...
C21_Witness ==
    /\ ConvertDone
    /\ arg.schema = [type |-> "array", items |-> RefTo("Ping")]
    /\ arg.allSchemas = AcyclicComponents @@ CyclicComponents
    /\ ret = Threw("RangeError")

\* ... and the same table with a schema whose chain is acyclic
C21_WitnessAcyclic ==
    /\ ConvertDone
    /\ arg.schema = [type |-> "array", items |-> RefTo("PetList")]
    /\ arg.allSchemas = AcyclicComponents @@ CyclicComponents
    /\ "returned" \in DOMAIN ret

(***************************************************************************)
(* Claims about the copied fields                                          *)
(***************************************************************************)
\* the scalar, bound and metadata fields of a ParsedSchema as the normalizer
\* leaves them: the ones it keeps, with the values it keeps them for
KeptByNormalizer(schema) ==
    ParsedScalars(schema)
    \cup {k \in {"type"} \cap DOMAIN schema : schema[k] # ""}

\* C22: for a ParsedSchema with no $ref and no allOf, each of type, format,
\* description, title, enum, default, example, nullable, minimum, maximum,
\* minLength, maxLength, pattern and required that the schema has is on the
\* converted node with the same value.
C22_FieldsCopied ==
    (/\ ConvertDone
     /\ "returned" \in DOMAIN ret
     /\ ~HasRef(arg.schema)
     /\ "allOf" \notin DOMAIN arg.schema) =>
        \A k \in KeptByNormalizer(arg.schema) :
            /\ k \in DOMAIN ret.returned
            /\ ret.returned[k] = arg.schema[k]

(***************************************************************************)
(* Claims about the tool description                                       *)
(***************************************************************************)
HasText(operation, k) == k \in DOMAIN operation /\ operation[k] # <<>>

IsDeprecated(operation) ==
    "deprecated" \in DOMAIN operation /\ operation.deprecated

\* the present parts in their order, joined by single spaces
PartsJoined(operation) ==
    JoinWithSpace(
        (IF HasText(operation, "summary") THEN <<operation.summary>> ELSE <<>>)
        \o (IF /\ HasText(operation, "description")
               /\ ~(HasText(operation, "summary")
                    /\ operation.description = operation.summary)
            THEN <<operation.description>> ELSE <<>>)
        \o (IF IsDeprecated(operation) THEN << <<"[DEPRECATED]">> >> ELSE <<>>)
        \o << <<"[">> \o operation.method \o <<"]">> >>)

\* C23: an operation with no summary, no description and not deprecated has
\* the description "Execute <operation_id>"; every other operation has the
\* present parts among summary, description (when it differs from summary),
\* "[DEPRECATED]" and "[<METHOD>]", in that order, joined by single spaces.
C23_Description ==
    (ToolDone /\ "returned" \in DOMAIN ret) =>
        LET operation == arg.operation
        IN IF /\ ~HasText(operation, "summary")
              /\ ~HasText(operation, "description")
              /\ ~IsDeprecated(operation)
           THEN ret.returned.description =
                    <<"Execute", " ">> \o operation.operation_id
           ELSE ret.returned.description = PartsJoined(operation)

(***************************************************************************)
(* Claims about the summary                                                *)
(***************************************************************************)
\* the tags an operation counts under: "untagged" when it has none
CountedUnder(operation) ==
    IF "tags" \in DOMAIN operation /\ operation.tags # <<>>
    THEN Range(operation.tags) ELSE {"untagged"}

OperationsUnder(tag) ==
    {i \in 1..Len(ArgOperations) : tag \in CountedUnder(ArgOperations[i])}

RECURSIVE SumOf(_)
SumOf(f) ==
    IF DOMAIN f = {} THEN 0
    ELSE LET k == CHOOSE x \in DOMAIN f : TRUE
         IN f[k] + SumOf([x \in DOMAIN f \ {k} |-> f[x]])

\* C24: every operation contributes to by_tag: one under "untagged" when its
\* tags are absent or an empty list, one under each of its tags otherwise;
\* the counts add up to at least total_tools.
C24_EveryOperationCounted ==
    (GenerateDone /\ IsParsedDocument(arg) /\ ret.ok) =>
        LET by_tag == ret.data.summary.by_tag
        IN /\ DOMAIN by_tag =
                 UNION {CountedUnder(ArgOperations[i]) :
                           i \in 1..Len(ArgOperations)}
           /\ \A tag \in DOMAIN by_tag :
                 by_tag[tag] = Cardinality(OperationsUnder(tag))
           /\ SumOf(by_tag) >= ret.data.summary.total_tools

(***************************************************************************)
(* Claims about the order of operations and parameters                     *)
(***************************************************************************)
\* get, put, post, delete, options, head, patch, trace: the key of a path
\* item and the method of the operation parsed from it
FixedOrder ==
    <<[key |-> "get", method |-> <<"G", "E", "T">>],
      [key |-> "put", method |-> <<"P", "U", "T">>],
      [key |-> "post", method |-> <<"P", "O", "S", "T">>],
      [key |-> "delete", method |-> <<"D", "E", "L", "E", "T", "E">>],
      [key |-> "options", method |-> <<"O", "P", "T", "I", "O", "N", "S">>],
      [key |-> "head", method |-> <<"H", "E", "A", "D">>],
      [key |-> "patch", method |-> <<"P", "A", "T", "C", "H">>],
      [key |-> "trace", method |-> <<"T", "R", "A", "C", "E">>]>>

\* the methods the i-th path item of the document has, in the fixed order
ExpectedMethods(i) ==
    SelectSeq(FixedOrder, LAMBDA m : m.key \in DOMAIN ArgSpec.paths[i].item)

NamesOf(parameters) == [k \in 1..Len(parameters) |-> parameters[k].name]

\* C25: whatever the order of the keys of a path item in the document, its
\* parsed operations are one per method it has among get, put, post, delete,
\* options, head, patch, trace, in that order, and the parameters of each
\* are the inline parameters of the path in document order, then the
\* operation's own inline parameters in document order.
C25_FixedMethodOrder ==
    (ParseDone /\ ret.ok) =>
        \A i \in 1..Len(ret.data.paths) :
            LET operations == ret.data.paths[i].operations
                expected == ExpectedMethods(i)
            IN /\ Len(operations) = Len(expected)
               /\ \A j \in 1..Len(operations) :
                     j <= Len(expected) =>
                        /\ operations[j].method = expected[j].method
                        /\ NamesOf(operations[j].parameters) =
                              NamesOf(SourceParameters(i, expected[j].key))

\* a path item that lists trace, post, get: parsed as GET, POST, TRACE, and
\* GET has the path's b and a, then its own d and c
C25_Witness ==
    /\ ParseDone /\ ret.ok
    /\ "paths" \in DOMAIN ArgSpec /\ Len(ArgSpec.paths) = 1
    /\ "keys" \in DOMAIN ArgSpec.paths[1].item
    /\ ArgSpec.paths[1].item.keys = <<"trace", "post", "get", "parameters">>
    /\ Len(ret.data.paths[1].operations) = 3
    /\ ret.data.paths[1].operations[1].method = <<"G", "E", "T">>
    /\ ret.data.paths[1].operations[3].method = <<"T", "R", "A", "C", "E">>
    /\ NamesOf(ret.data.paths[1].operations[1].parameters) =
          <<"b", "a", "d", "c">>

(***************************************************************************)
(* Claims about the error codes of openapiParse                            *)
(***************************************************************************)
\* C26: openapiParse fails with PARSE_ERROR only on a text that is not
\* syntactically valid JSON, and with UPSTREAM_ERROR only on a text in URL
\* form whose retrieval failed; a text that is valid JSON never gives
\* PARSE_ERROR, also when dereferencing raises on it.
C26_ParseErrorOnlyForInvalidJson ==
    ParseDone =>
        /\ ErrorCode = "PARSE_ERROR" => ~arg.jsonParses
        /\ ErrorCode = "UPSTREAM_ERROR" =>
              /\ ~BeginsWithBrace(arg.specUrlOrJson)
              /\ "raised" \in DOMAIN arg.dereference

(***************************************************************************)
(* Claims about the input document after the call                          *)
(***************************************************************************)
\* C27: generateToolSchemas leaves its input document unchanged: after the
\* call its operations, parameter schemas, request-body schemas and
\* component schemas have the fields and values they had before, also when
\* the description of a parameter or of a request body is put on a node
\* converted from a component schema.
C27_InputUnchanged ==
    GenerateDone => heap = arg

\* a parameter and a wrapped body, both described and both converted from a
\* component: the descriptions are on the tool's nodes, not on the components
C27_Witness ==
    /\ GenerateDone
    /\ IsParsedDocument(arg)
    /\ ret.ok
    /\ "schemas" \in DOMAIN arg.object
    /\ \E i \in 1..Len(ArgOperations) :
          /\ ArgOperations[i].parameters = <<ParamPet>>
          /\ "request_body" \in DOMAIN ArgOperations[i]
          /\ ret.data.tools[i].inputSchema.properties["pet"].description =
                "the pet"
          /\ ret.data.tools[i].inputSchema.properties["body"].description =
                "payload"
    /\ "description" \notin DOMAIN heap.object.schemas["Pet"]
    /\ "description" \notin DOMAIN heap.object.schemas["PetList"]

(***************************************************************************)
(* Claims about the required list and the tool names                       *)
(***************************************************************************)
\* C28: in every tool operationToTool produces, each name of
\* inputSchema.required is a key of inputSchema.properties and no name is in
\* inputSchema.required more than once.
C28_RequiredAreProperties ==
    (ToolDone /\ "returned" \in DOMAIN ret) =>
        LET input == ret.returned.inputSchema
        IN /\ Range(input.required) \subseteq DOMAIN input.properties
           /\ NoDuplicates(input.required)

\* C29: in the result of generateToolSchemas, operations with pairwise
\* distinct operation_ids give tools with pairwise distinct names.
C29_DistinctNames ==
    (GenerateDone /\ IsParsedDocument(arg) /\ ret.ok) =>
        ((\A i, j \in 1..Len(ArgOperations) :
              i # j => ArgOperations[i].operation_id
                          # ArgOperations[j].operation_id)
         => \A i, j \in 1..Len(ret.data.tools) :
               i # j => ret.data.tools[i].name # ret.data.tools[j].name)

(***************************************************************************)
(* Claims about the source tag                                             *)
(***************************************************************************)
\* C30: when openapiParse treats its input as inline JSON (the trimmed text
\* starts with "{") and succeeds, meta.source is "json_input"; meta.source is
\* the input text only when the input was treated as a URL.
C30_SourceTag ==
    (ParseDone /\ ret.ok) =>
        /\ BeginsWithBrace(arg.specUrlOrJson) =>
              ret.meta.source = <<"json_input">>
        /\ ret.meta.source = arg.specUrlOrJson =>
              ~BeginsWithBrace(arg.specUrlOrJson)

================================================================================
